---- MODULE Spec2Model ----
(***************************************************************************)
(* Model of the CRDT list/bulletin server.                                 *)
(*                                                                         *)
(* Two session loops live in the repository.  The "DB variant" keeps the   *)
(* list registry in SQL tables and list documents in a write-back cache    *)
(* (ws.ts first half, registryStore.ts, listDocStore.ts, index.ts).  The   *)
(* "file variant" keeps the registry as an Automerge document and writes   *)
(* blobs to files (ws.ts second half, actions.ts, crdt.ts).  SpecDB and    *)
(* SpecFile are the two state machines; SpecCap exercises the registry     *)
(* actions of actions.ts alone with the real list cap.                     *)
(*                                                                         *)
(* Asynchronous handlers are cut at their real suspension points (a DB     *)
(* round trip or a file operation).  A suspended handler is an element of  *)
(* the bag "tasks"; the I/O takes effect in the step that resumes it.      *)
(* Awaits of already-settled promises are not suspension points: no other  *)
(* macrotask can run in between.                                           *)
(***************************************************************************)
EXTENDS Integers, Sequences, FiniteSets, Bags, TLC

\* ---------------------------------------------------------------- bounds
MaxLists == 1        \* list ids the server may allocate (randomUUID calls)
MaxItems == 1        \* items a list document may hold in the model
MaxFrames == 2       \* client frames handled in one run
MaxFlushes == 2      \* flush timer ticks in one run
MaxBulletins == 2    \* bulletins the bulletin document may hold in the model

\* ------------------------------------------------------ program constants
MAX_NAME_LENGTH == 200
MAX_LISTS_PER_USER == 200
MAX_ITEMS_PER_LIST == 1000
MAX_BULLETIN_TEXT == 2000

\* ------------------------------------------------------------- universes
Users == {"alice", "bob"}
Conns == {1, 2}
ConnUser(c) == IF c = 1 THEN "alice" ELSE "bob"

ListIds == 1..MaxLists
GhostId == MaxLists + 1              \* an id no create_list ever returned
AnyListId == ListIds \cup {GhostId}  \* what a client may name in a frame

None == "none"
Visibilities == {"public", "private"}

\* Raw client strings: "" and " " are blank, " a " needs trimming, "long"
\* stands for a string of MAX_NAME_LENGTH + 1 characters.
RawStrings == {"", " ", "a", " a ", "b", "long"}
trim(s) == CASE s = " " -> "" [] s = " a " -> "a" [] OTHER -> s
length(s) == CASE s = "" -> 0 [] s = "a" -> 1 [] s = "b" -> 1
               [] s = "long" -> MAX_NAME_LENGTH + 1 [] OTHER -> 3

Ok(v) == [ok |-> TRUE, val |-> v, err |-> None]
Err(e) == [ok |-> FALSE, val |-> None, err |-> e]

\* ------------------------------------------------------- access control
isListVisibleToAnyone(entry, userId) == TRUE

isListVisibleTo(entry, userId) ==
    IF entry.visibility = "public" THEN TRUE
    ELSE IF entry.ownerId = userId THEN TRUE
    ELSE userId \in entry.collaborators

ensureOwner(entry, userId) == entry.ownerId = userId

ensureCanEditMetadata(entry, userId) ==
    IF entry.ownerId = userId THEN TRUE
    ELSE IF userId \in entry.collaborators THEN TRUE
    ELSE FALSE

\* ensureListEditable without its archive test (C9 must notice).
ensureListEditableArchived(entry, userId) ==
    IF entry.visibility = "public" THEN None
    ELSE IF ensureCanEditMetadata(entry, userId) THEN None
    ELSE "Forbidden"

\* None when the entry may be edited by userId, else the error thrown.
ensureListEditable(entry, userId) ==
    IF entry.archived THEN "List is archived"
    ELSE IF entry.visibility = "public" THEN None
    ELSE IF ensureCanEditMetadata(entry, userId) THEN None
    ELSE "Forbidden"

\* ------------------------------------------------------ string helpers
requireListName(raw) ==
    LET t == trim(raw) IN
    IF t = "" THEN Err("Name required")
    ELSE IF length(t) > MAX_NAME_LENGTH THEN Err("Name too long")
    ELSE Ok(t)

requireItemLabel(raw) ==
    LET t == trim(raw) IN
    IF t = "" THEN Err("Label required")
    ELSE IF length(t) > MAX_NAME_LENGTH THEN Err("Label too long")
    ELSE Ok(t)

requireBulletinText(raw) ==
    LET t == trim(raw) IN
    IF t = "" THEN Err("Text must be non-empty")
    ELSE IF length(t) > MAX_BULLETIN_TEXT THEN Err("Text exceeds allowed length")
    ELSE Ok(t)

\* Optional plain field: absent when blank, else trimmed (and cut to 200).
trimOptionalField(value) ==
    IF value = None THEN None
    ELSE IF trim(value) = "" THEN None
    ELSE IF value = "long" THEN "a" ELSE trim(value)

RECURSIVE SeqToSet(_)
SeqToSet(s) == IF s = <<>> THEN {} ELSE {Head(s)} \cup SeqToSet(Tail(s))

\* Collaborator arrays arrive as sequences; the result is a set without
\* the owner (the Record<UserId,true> the entry stores).
uniqueCollaborators(collaborators, ownerId) ==
    {id \in SeqToSet(collaborators) : id # ownerId}

\* ------------------------------------------------------------ documents
\* An Automerge document is its visible content plus "ver", which stands
\* for its heads: every committed Automerge.change yields new heads.
\* Timestamps (createdAt, updatedAt, editedAt) are left out.
NoDoc == [absent |-> TRUE]
EmptyListDoc(listId) == [listId |-> listId, ver |-> 0, items |-> <<>>]
EmptyBulletinDoc == [ver |-> 0, bulletins |-> <<>>]
EmptyRegistryDoc == [ver |-> 0, lists |-> <<>>]

ItemIds == 1..(MaxItems + 1)
BulletinIds == 1..(MaxBulletins + 1)

\* randomUUID: an id no element of the document carries or ever carried
\* (heads only grow).
FreshId(doc) == doc.ver + 1

\* Array.findIndex: 0 when no element carries the id (-1 in the source).
findIndex(seq, id) ==
    IF \E k \in 1..Len(seq) : seq[k].id = id
    THEN CHOOSE k \in 1..Len(seq) :
            seq[k].id = id /\ \A j \in 1..(k - 1) : seq[j].id # id
    ELSE 0

splice(seq, k) == SubSeq(seq, 1, k - 1) \o SubSeq(seq, k + 1, Len(seq))

\* Automerge.change on a list document: new content, new heads.
changeItems(doc, items) == [doc EXCEPT !.items = items, !.ver = doc.ver + 1]

\* ----------------------------------------- list document actions (actions.ts)
addItem(doc, entry, userId, rawLabel, quantity, vendor) ==
    LET e == ensureListEditable(entry, userId)
        label == requireItemLabel(rawLabel)
    IN  IF e # None THEN Err(e)
        ELSE IF ~label.ok THEN label
        ELSE IF Len(doc.items) >= MAX_ITEMS_PER_LIST THEN Err("Item limit reached")
        ELSE Ok(changeItems(doc, Append(doc.items,
                [id |-> FreshId(doc), label |-> label.val,
                 addedBy |-> userId, checked |-> FALSE,
                 quantity |-> trimOptionalField(quantity),
                 vendor |-> trimOptionalField(vendor), notes |-> None])))

\* The shape shared by the actions that edit one existing item.
editItem(doc, entry, userId, itemId, f(_)) ==
    LET e == ensureListEditable(entry, userId)
        k == findIndex(doc.items, itemId)
    IN  IF e # None THEN Err(e)
        ELSE IF k = 0 THEN Err("Item not found")
        ELSE Ok(changeItems(doc, [doc.items EXCEPT ![k] = f(doc.items[k])]))

updateItemLabel(doc, entry, userId, itemId, rawLabel) ==
    LET e == ensureListEditable(entry, userId)
        label == requireItemLabel(rawLabel)
        setLabel(item) == [item EXCEPT !.label = label.val]
    IN  IF e # None THEN Err(e)
        ELSE IF ~label.ok THEN label
        ELSE editItem(doc, entry, userId, itemId, setLabel)

setItemQuantity(doc, entry, userId, itemId, quantity) ==
    LET setQuantity(item) == [item EXCEPT !.quantity = trimOptionalField(quantity)]
    IN  editItem(doc, entry, userId, itemId, setQuantity)

setItemVendor(doc, entry, userId, itemId, vendor) ==
    LET setVendor(item) == [item EXCEPT !.vendor = trimOptionalField(vendor)]
    IN  editItem(doc, entry, userId, itemId, setVendor)

\* trimNotes: blank is absent, longer than MAX_NOTES_LENGTH is an error.
setItemNotes(doc, entry, userId, itemId, notes) ==
    LET e == ensureListEditable(entry, userId)
        trimmed == IF notes = None THEN None
                   ELSE IF trim(notes) = "" THEN None ELSE trim(notes)
        setNotes(item) == [item EXCEPT !.notes = trimmed]
    IN  IF e # None THEN Err(e)
        ELSE IF trimmed = "long" THEN Err("Notes too long")
        ELSE editItem(doc, entry, userId, itemId, setNotes)

toggleItemFlipped(doc, entry, userId, itemId, checked) ==
    LET flip(item) == [item EXCEPT !.checked = ~@]
    IN  editItem(doc, entry, userId, itemId, flip)

toggleItemChecked(doc, entry, userId, itemId, checked) ==
    LET setChecked(item) == [item EXCEPT !.checked = checked]
    IN  editItem(doc, entry, userId, itemId, setChecked)

removeItem(doc, entry, userId, itemId) ==
    LET e == ensureListEditable(entry, userId)
        k == findIndex(doc.items, itemId)
    IN  IF e # None THEN Err(e)
        ELSE IF k = 0 THEN Err("Item not found")
        ELSE Ok(changeItems(doc, splice(doc.items, k)))

\* --------------------------------------------- bulletin actions (actions.ts)
changeBulletins(doc, bs) == [doc EXCEPT !.bulletins = bs, !.ver = doc.ver + 1]

addBulletin(doc, userId, rawText, visibility) ==
    LET text == requireBulletinText(rawText) IN
    IF ~text.ok THEN text
    ELSE Ok(changeBulletins(doc, Append(doc.bulletins,
            [id |-> FreshId(doc), authorId |-> userId,
             text |-> text.val, visibility |-> visibility])))

\* editBulletin without its author test (C10 must notice).
editBulletinByAnyone(doc, userId, bulletinId, rawText) ==
    LET text == requireBulletinText(rawText)
        k == findIndex(doc.bulletins, bulletinId)
    IN  IF ~text.ok THEN text
        ELSE IF k = 0 THEN Err("Bulletin not found")
        ELSE Ok([doc EXCEPT !.ver = doc.ver + 1,
                            !.bulletins = [doc.bulletins EXCEPT ![k] =
                                              [@ EXCEPT !.text = text.val]]])

editBulletin(doc, userId, bulletinId, rawText) ==
    LET text == requireBulletinText(rawText)
        k == findIndex(doc.bulletins, bulletinId)
    IN  IF ~text.ok THEN text
        ELSE IF k = 0 THEN Err("Bulletin not found")
        ELSE IF doc.bulletins[k].authorId # userId THEN Err("Forbidden")
        ELSE Ok(changeBulletins(doc,
                [doc.bulletins EXCEPT ![k] = [@ EXCEPT !.text = text.val]]))

deleteBulletin(doc, userId, bulletinId) ==
    LET k == findIndex(doc.bulletins, bulletinId) IN
    IF k = 0 THEN Err("Bulletin not found")
    ELSE IF doc.bulletins[k].authorId # userId THEN Err("Forbidden")
    ELSE Ok(changeBulletins(doc, splice(doc.bulletins, k)))

\* ------------------------------------------------------------ sync engine
\* The Automerge sync protocol as the server sees it.  A sync state holds
\* the heads the peer is known to have ("their", -1 while unknown) and the
\* heads last announced to it ("sent").  The first message to a fresh peer
\* announces heads only; changes go out once the peer's heads are known.
initSyncState == [their |-> -1, sent |-> -1]

\* [state, message]; message.none when the peer needs nothing new.
generateSyncMessage(doc, syncState) ==
    IF syncState.sent = doc.ver
    THEN [state |-> syncState, none |-> TRUE, changes |-> FALSE]
    ELSE [state |-> [syncState EXCEPT !.sent = doc.ver], none |-> FALSE,
          changes |-> syncState.their # -1 /\ syncState.their < doc.ver]

\* A client message: the edit it carries (None: heads only) and whether the
\* peer already holds every change of the server's document.
ListEdits == {None, "add", "clear"}
BulletinEdits == {None, "forge", "clear"}
applyListEdit(doc, edit, userId) ==
    CASE edit = "add" /\ Len(doc.items) < MaxItems ->
            changeItems(doc, Append(doc.items,
                [id |-> FreshId(doc), label |-> "b",
                 addedBy |-> userId, checked |-> TRUE,
                 quantity |-> None, vendor |-> None, notes |-> None]))
      [] edit = "clear" /\ doc.items # <<>> -> changeItems(doc, <<>>)
      [] OTHER -> doc

\* The peer is free to write any author into the bulletin it adds.
applyBulletinEdit(doc, edit, userId) ==
    CASE edit = "forge" /\ Len(doc.bulletins) < MaxBulletins ->
            changeBulletins(doc, Append(doc.bulletins,
                [id |-> FreshId(doc),
                 authorId |-> CHOOSE u \in Users : u # userId,
                 text |-> "b", visibility |-> "public"]))
      [] edit = "clear" /\ doc.bulletins # <<>> -> changeBulletins(doc, <<>>)
      [] OTHER -> doc

\* The peer is free to rewrite the owner of every registry entry.
RegistryEdits == {None, "seize", "clear"}
applyRegistryEdit(doc, edit, userId) ==
    CASE edit = "seize" /\ doc.lists # <<>> ->
            [doc EXCEPT !.ver = doc.ver + 1,
                        !.lists = [k \in 1..Len(doc.lists) |->
                                      [doc.lists[k] EXCEPT !.ownerId = userId]]]
      [] edit = "clear" /\ doc.lists # <<>> ->
            [doc EXCEPT !.ver = doc.ver + 1, !.lists = <<>>]
      [] OTHER -> doc

\* receiveSyncMessage: the merged document and the next sync state.
receiveSyncMessage(doc, syncState, nextDoc, caughtUp) ==
    [doc |-> nextDoc,
     state |-> [syncState EXCEPT !.their = IF caughtUp THEN nextDoc.ver ELSE 0]]

\* ------------------------------------------------------ document selectors
RegistryKey == [kind |-> "registry", listId |-> -1]
BulletinsKey == [kind |-> "bulletins", listId |-> -1]
ListKey(l) == [kind |-> "list", listId |-> l]
DocKeys == {RegistryKey, BulletinsKey} \cup {ListKey(l) : l \in AnyListId}

\* Map.set / Map.delete on a subscription map (a function on its keys).
mapSet(m, k, v) == [x \in DOMAIN m \cup {k} |-> IF x = k THEN v ELSE m[x]]
mapKeep(m, k) == m
mapDelete(m, k) == [x \in DOMAIN m \ {k} |-> m[x]]

\* ------------------------------------------------------ snapshot projector
NoRow == [absent |-> TRUE]

filterBulletinsUnfiltered(doc, userId) == doc.bulletins

filterBulletins(doc, userId) ==
    SelectSeq(doc.bulletins, LAMBDA b : b.visibility = "public" \/ b.authorId = userId)

toFilteredListDoc(doc) == [listId |-> doc.listId, items |-> doc.items]

\* ------------------------------------------------------------- frames
Welcome(c) == [type |-> "welcome", to |-> c, doc |-> RegistryKey, code |-> None,
               message |-> None, state |-> <<>>, changes |-> FALSE]
Snapshot(c, key, st) == [type |-> "snapshot", to |-> c, doc |-> key, code |-> None,
                         message |-> None, state |-> st, changes |-> FALSE]
SyncFrame(c, key, d, ch) == [type |-> "sync", to |-> c, doc |-> key, code |-> None,
                             message |-> None,
                             state |-> IF ch THEN d ELSE <<>>, changes |-> ch]
ErrorFrame(c, code, message) ==
    [type |-> "error", to |-> c, doc |-> RegistryKey, code |-> code,
     message |-> message, state |-> <<>>, changes |-> FALSE]

\* ----------------------------------------------- rate limiter (TokenBucket)
\* Token amounts are kept in hundredths of a token, so that the refill of
\* one millisecond (0.02) is an integer.
\* Sums of such amounts stay far from the next hundredth in double
\* arithmetic, so a comparison "tokens < cost" can differ from the exact one
\* only where the two sides are equal.
RATE_LIMIT_CAPACITY == 40
RATE_LIMIT_REFILL_PER_SECOND == 20
RATE_LIMIT_COST_ACTION == 1
TokenScale == 100

capacity == RATE_LIMIT_CAPACITY * TokenScale
refillPerMs == (RATE_LIMIT_REFILL_PER_SECOND * TokenScale) \div 1000
CostAction == RATE_LIMIT_COST_ACTION * TokenScale

Min(a, b) == IF a < b THEN a ELSE b

\* new TokenBucket(capacity, refillPerSecond) at time t.
TokenBucket(t) == [tokens |-> capacity, lastRefill |-> t]

refillUncapped(b, t) ==
    IF t <= b.lastRefill THEN b
    ELSE [tokens |-> b.tokens + (t - b.lastRefill) * refillPerMs, lastRefill |-> t]

refill(b, t) ==
    IF t <= b.lastRefill THEN b
    ELSE [tokens |-> Min(capacity, b.tokens + (t - b.lastRefill) * refillPerMs),
          lastRefill |-> t]

tryRemoveUnchecked(b, cost, t) ==
    LET r == refill(b, t) IN [ok |-> TRUE, bucket |-> [r EXCEPT !.tokens = @ - cost]]

tryRemoveCharging(b, cost, t) ==
    LET r == refill(b, t) IN
    [ok |-> r.tokens >= cost, bucket |-> [r EXCEPT !.tokens = @ - cost]]

\* [ok, bucket]: the result and the bucket afterwards.
tryRemove(b, cost, t) ==
    LET r == refill(b, t) IN
    IF r.tokens < cost THEN [ok |-> FALSE, bucket |-> r]
    ELSE [ok |-> TRUE, bucket |-> [r EXCEPT !.tokens = @ - cost]]

consumeRateLimit(c, b, cost, t) ==
    LET r == tryRemove(b, cost, t) IN
    [ok |-> r.ok, bucket |-> r.bucket,
     frames |-> IF r.ok THEN <<>>
                ELSE <<ErrorFrame(c, "RATE_LIMITED", "Too many requests")>>]

\* ------------------------------------------------------------------ state
VARIABLES
    dbLists,        \* SQL tables lists + list_collaborators: id -> row or NoRow
    dbListDocs,     \* SQL table list_docs: id -> persisted document or NoDoc
    dbBulletinDoc,  \* SQL table bulletin_docs: persisted document or NoDoc
    listDocCache,   \* listDocStore.ts listDocCache: id -> document or NoDoc
    dirtyListIds,   \* listDocStore.ts dirtyListIds
    bulletinsDoc,   \* context.bulletinsDoc
    bulletinsDirty, \* context.bulletinsDirty
    connections,    \* the Set<Connection> of createWSServer (open sockets)
    closed,         \* connections whose socket has closed
    subscriptions,  \* connection.subscriptions: descriptor key -> sync state
    tasks,          \* suspended async functions (a bag)
    emitted,        \* frames written to sockets by the last step, in order
    allocated,      \* list ids handed out so far
    nframes,        \* client frames handled so far
    nflushes,       \* flush timer ticks so far
    registryDoc,    \* file variant: context.registryDoc
    registryFile,   \* file variant: the registry blob on disk
    rateLimiter,    \* connection.rateLimiter of connection 1: tokens, lastRefill
    now,            \* Date.now(), in ms since connection 1 was set up
    window,         \* observer: a 1-second window and the action frames accepted in it
    directory,      \* persist.ts: the data directory, file name -> inode (0: no such file)
    inodes,         \* persist.ts: inode -> bytes of the file
    writers,        \* persist.ts: the writeFileAtomic calls in progress
    tmpNaming,      \* which writeFileAtomic runs: "fixed" (persist.ts) or "unique"
    process,        \* index.ts: "running", "stopping" (shutdown() under way) or "exited"
    probe           \* a domain action applied on its own: its arguments and results

vars == <<dbLists, dbListDocs, dbBulletinDoc, listDocCache, dirtyListIds,
          bulletinsDoc, bulletinsDirty, connections, closed, subscriptions,
          tasks, emitted, allocated, nframes, nflushes, registryDoc, registryFile,
          rateLimiter, now, window, directory, inodes, writers, tmpNaming, process,
          probe>>

fileVars == <<registryDoc, registryFile>>
rateVars == <<rateLimiter, now, window>>
fsVars == <<directory, inodes, writers, tmpNaming>>
sideVars == <<fsVars, process, probe>>

dbVars == <<dbLists, dbListDocs, dbBulletinDoc>>
docVars == <<listDocCache, dirtyListIds, bulletinsDoc, bulletinsDirty>>

\* -------------------------------------------- registryStore.ts (DB variant)
Row(id, owner, name, vis, arch, collabs) ==
    [id |-> id, ownerId |-> owner, name |-> name, visibility |-> vis,
     archived |-> arch, collaborators |-> collabs]

fetchRegistryEntry(db, listId) ==
    IF listId \in ListIds THEN db[listId] ELSE NoRow

\* ORDER BY created_at DESC: ids are allocated in creation order.
RECURSIVE AccessibleFrom(_, _, _)
AccessibleFrom(db, userId, n) ==
    IF n = 0 THEN <<>>
    ELSE (IF db[n] # NoRow /\ isListVisibleTo(db[n], userId) THEN <<db[n]>> ELSE <<>>)
         \o AccessibleFrom(db, userId, n - 1)

fetchAccessibleRegistry(db, userId) == AccessibleFrom(db, userId, MaxLists)

normalizeCollaborators(collaborators, ownerId) ==
    {id \in SeqToSet(collaborators) : id # ownerId}

\* INSERT INTO list_collaborators of one row per array element: a repeated
\* user violates the primary key (list_id, user_id) and the statement fails.
HasDuplicates(seq) == \E i, j \in 1..Len(seq) : i # j /\ seq[i] = seq[j]

\* ---------------------------------------------- listDocStore.ts (DB variant)
\* The document a finished SELECT on list_docs yields.
loadedListDoc(docs, listId) ==
    IF listId \in ListIds /\ docs[listId] # NoDoc THEN docs[listId]
    ELSE EmptyListDoc(listId)

\* ------------------------------------------------------------------ tasks
NoAct == [type |-> None]
Task(kind, c, key, pc) ==
    [kind |-> kind, conn |-> c, key |-> key, pc |-> pc, then |-> None,
     rest |-> <<>>, act |-> NoAct, entry |-> NoRow, doc |-> NoDoc]

Spawn(bag, t) == bag (+) SetToBag({t})
Retire(bag, t) == bag (-) SetToBag({t})
InFlight == BagCardinality(tasks)

ConnSeq == <<1, 2>>

\* sendJson: nothing is written to a socket that is not open.
Send(frames, open) == SelectSeq(frames, LAMBDA f : f.to \in open)

\* ------------------------------------------------- ws.ts (DB variant) helpers
resolveDocForDescriptor(key, cache, bdoc) ==
    CASE key.kind = "bulletins" -> bdoc
      [] key.kind = "list" -> cache[key.listId]
      [] OTHER -> NoDoc

\* flushSync: the outbound loop of one subscription.  With the sync state
\* above the loop sends at most one message before generate returns none.
flushSync(c, key, subs, open, doc) ==
    IF key.kind = "registry" \/ key \notin DOMAIN subs[c] \/ c \notin open
    THEN [subs |-> subs, frames |-> <<>>]
    ELSE IF doc = NoDoc THEN [subs |-> subs, frames |-> <<>>]
    ELSE LET g == generateSyncMessage(doc, subs[c][key]) IN
         [subs |-> [subs EXCEPT ![c] = mapSet(@, key, g.state)],
          frames |-> IF g.none THEN <<>> ELSE <<SyncFrame(c, key, doc, g.changes)>>]

\* A sendSnapshot call waiting for its registry query.
SnapTask(c, key, then, rest) ==
    [Task("snap", c, key, "entry") EXCEPT !.then = then, !.rest = rest]

\* broadcastDoc: every connection subscribed to the descriptor gets
\* sendSnapshot (not awaited) and then flushSync.  The bulletins snapshot is
\* built without awaiting and goes out at once; a registry or list snapshot
\* first queries the database, so it goes out when that query returns.
RECURSIVE broadcastFrom(_, _, _, _, _, _)
broadcastFrom(i, key, open, subs, cache, bdoc) ==
    IF i > Len(ConnSeq) THEN [subs |-> subs, frames |-> <<>>, spawn |-> EmptyBag]
    ELSE LET c == ConnSeq[i] IN
         IF c \notin open \/ key \notin DOMAIN subs[c]
         THEN broadcastFrom(i + 1, key, open, subs, cache, bdoc)
         ELSE LET snap == IF key.kind = "bulletins"
                          THEN <<Snapshot(c, key, filterBulletins(bdoc, ConnUser(c)))>>
                          ELSE <<>>
                  fl == flushSync(c, key, subs, open,
                                  resolveDocForDescriptor(key, cache, bdoc))
                  more == broadcastFrom(i + 1, key, open, fl.subs, cache, bdoc)
              IN  [subs |-> more.subs,
                   frames |-> snap \o fl.frames \o more.frames,
                   spawn |-> IF key.kind = "bulletins" THEN more.spawn
                             ELSE Spawn(more.spawn, SnapTask(c, key, None, <<>>))]

broadcastDoc(key, open, subs, cache, bdoc) ==
    broadcastFrom(1, key, open, subs, cache, bdoc)

\* request_full_state without a selector: sendSnapshot for each
\* subscription in turn, each awaited.  Runs until a snapshot has to wait.
RECURSIVE runSnapshots(_, _, _)
runSnapshots(c, keys, bdoc) ==
    IF keys = <<>> THEN [frames |-> <<>>, spawn |-> EmptyBag]
    ELSE IF Head(keys).kind = "bulletins"
    THEN LET more == runSnapshots(c, Tail(keys), bdoc) IN
         [frames |-> <<Snapshot(c, BulletinsKey, filterBulletins(bdoc, ConnUser(c)))>>
                     \o more.frames,
          spawn |-> more.spawn]
    ELSE [frames |-> <<>>,
          spawn |-> SetToBag({SnapTask(c, Head(keys), "more", Tail(keys))})]

\* What follows a finished sendSnapshot in the handler that awaited it.
afterSnapshot(t, subs, open, cache, bdoc) ==
    CASE t.then = "flush" ->
            LET fl == flushSync(t.conn, t.key, subs, open,
                                resolveDocForDescriptor(t.key, cache, bdoc))
            IN  [subs |-> fl.subs, frames |-> fl.frames, spawn |-> EmptyBag]
      [] t.then = "init" ->
            LET fl == flushSync(t.conn, BulletinsKey, subs, open, bdoc) IN
            [subs |-> fl.subs,
             frames |-> <<Snapshot(t.conn, BulletinsKey,
                                   filterBulletins(bdoc, ConnUser(t.conn)))>> \o fl.frames,
             spawn |-> EmptyBag]
      [] t.then = "more" ->
            LET r == runSnapshots(t.conn, t.rest, bdoc) IN
            [subs |-> subs, frames |-> r.frames, spawn |-> r.spawn]
      [] OTHER -> [subs |-> subs, frames |-> <<>>, spawn |-> EmptyBag]

\* ---------------------------------------------------- initial state (DB)
\* The server starts on a database earlier runs may have filled: list 1
\* may exist (owned by alice), with or without a stored document, and the
\* bulletin row may hold a private bulletin of alice.
OneItemDoc(l) ==
    [listId |-> l, ver |-> 1,
     items |-> <<[id |-> 1, label |-> "a", addedBy |-> "alice", checked |-> FALSE,
                  quantity |-> None, vendor |-> None, notes |-> None]>>]
OneBulletinDoc ==
    [ver |-> 1,
     bulletins |-> <<[id |-> 1, authorId |-> "alice", text |-> "a",
                      visibility |-> "private"]>>]

InitRows == {NoRow, Row(1, "alice", "a", "private", FALSE, {}),
             Row(1, "alice", "a", "private", FALSE, {"bob"}),
             Row(1, "alice", "a", "public", FALSE, {}),
             Row(1, "alice", "a", "public", TRUE, {})}

\* ------------------------------------------------ persist.ts: writeFileAtomic
\* Files of the data directory as the operating system keeps them: a name
\* refers to an inode, an open file handle keeps its inode whatever happens
\* to the name afterwards.  A name is the target or a temp sibling of it.
MaxWriters == 3
WriterIds == 1..MaxWriters

targetPath == [tmp |-> FALSE, id |-> 0]
FileNames == {targetPath} \cup {[tmp |-> TRUE, id |-> i] : i \in 0..MaxWriters}

\* persist.ts names the temp file `${targetPath}.tmp`; the other
\* writeFileAtomic adds pid, Date.now() and randomUUID(), a name of its own
\* for every call.
tmpPath(naming, w) ==
    IF naming = "fixed" THEN [tmp |-> TRUE, id |-> 0] ELSE [tmp |-> TRUE, id |-> w]

\* The data of call w: w bytes that name their writer.
Payload(w) == [i \in 1..w |-> w]

\* write(fd, data) at offset 0 of a file that holds `bytes`.
pwrite(bytes, data) ==
    [i \in 1..(IF Len(data) > Len(bytes) THEN Len(data) ELSE Len(bytes)) |->
        IF i <= Len(data) THEN data[i] ELSE bytes[i]]

NoWriter == [pc |-> "idle", fd |-> 0]

\* No domain action is being applied on its own.
NoProbe == [absent |-> TRUE]

\* No writeFileAtomic call is under way and the directory is empty.
SideIdle ==
    /\ directory = [n \in FileNames |-> 0]
    /\ inodes = <<>>
    /\ writers = [w \in WriterIds |-> NoWriter]
    /\ tmpNaming = "fixed"
    /\ process = "running"
    /\ probe = NoProbe

\* Connection 1 was set up at time 0 and has sent nothing yet.
RateIdle ==
    /\ rateLimiter = TokenBucket(0)
    /\ now = 0
    /\ window = [start |-> -1, accepted |-> 0]

InitStore ==
    /\ RateIdle
    /\ SideIdle
    /\ \E r \in InitRows :
         /\ dbLists = [l \in ListIds |-> IF l = 1 THEN r ELSE NoRow]
         /\ allocated = IF r = NoRow THEN 0 ELSE 1
         /\ \E d \in (IF r = NoRow THEN {NoDoc} ELSE {OneItemDoc(1)}) :
              dbListDocs = [l \in ListIds |-> IF l = 1 THEN d ELSE NoDoc]
    /\ dbBulletinDoc \in {NoDoc, OneBulletinDoc}
    /\ bulletinsDoc = IF dbBulletinDoc = NoDoc THEN EmptyBulletinDoc ELSE dbBulletinDoc
    /\ bulletinsDirty = FALSE
    /\ listDocCache = [l \in AnyListId |-> NoDoc]
    /\ dirtyListIds = {}
    /\ closed = {}
    /\ tasks = EmptyBag
    /\ emitted = <<>>
    /\ nframes = 0
    /\ nflushes = 0
    /\ registryDoc = EmptyRegistryDoc
    /\ registryFile = NoDoc

\* The server has just started: nobody is connected.
InitDB ==
    /\ InitStore
    /\ connections = {}
    /\ subscriptions = [c \in Conns |-> << >>]

\* Both users are connected and hold their initial snapshots: the state
\* after Connect(1), Connect(2) and the two pending registry snapshots
\* (SpecDB reaches it, see LiveReached).  The handler families below start
\* here.
LiveSubscriptions(bdoc) ==
    [c \in Conns |->
        mapSet(mapSet(<< >>, RegistryKey, initSyncState), BulletinsKey,
               generateSyncMessage(bdoc, initSyncState).state)]

InitLive ==
    /\ InitStore
    /\ connections = Conns
    /\ subscriptions = LiveSubscriptions(bulletinsDoc)

LiveReached ==
    /\ connections = Conns
    /\ tasks = EmptyBag
    /\ nframes = 0
    /\ subscriptions = LiveSubscriptions(bulletinsDoc)

\* ------------------------------------------------ connection life cycle
ConnectUnwelcomed(c) ==
    /\ c \notin connections \cup closed
    /\ connections' = connections \cup {c}
    /\ subscriptions' = [subscriptions EXCEPT ![c] =
            mapSet(mapSet(@, RegistryKey, initSyncState), BulletinsKey, initSyncState)]
    /\ tasks' = Spawn(tasks, [Task("snap", c, RegistryKey, "entry") EXCEPT !.then = "init"])
    /\ emitted' = <<>>
    /\ UNCHANGED <<sideVars, rateVars, fileVars, dbVars, docVars, closed, allocated, nframes, nflushes>>

\* wss.on('connection'): welcome, then initializeConnection, which
\* subscribes to registry and bulletins and waits for the registry query.
Connect(c) ==
    /\ c \notin connections \cup closed
    /\ connections' = connections \cup {c}
    /\ subscriptions' = [subscriptions EXCEPT ![c] =
            mapSet(mapSet(@, RegistryKey, initSyncState), BulletinsKey, initSyncState)]
    /\ tasks' = Spawn(tasks, SnapTask(c, RegistryKey, "init", <<>>))
    /\ emitted' = <<Welcome(c)>>
    /\ UNCHANGED <<sideVars, rateVars, fileVars, dbVars, docVars, closed, allocated, nframes, nflushes>>

\* socket.on('close'): the Connection leaves the set; nothing reads its
\* subscription map again (broadcastDoc walks the set, flushSync and
\* sendJson stop at a socket that is not open), so the map is dropped.
Close(c) ==
    /\ c \in connections
    /\ connections' = connections \ {c}
    /\ closed' = closed \cup {c}
    /\ subscriptions' = [subscriptions EXCEPT ![c] = << >>]
    /\ emitted' = <<>>
    /\ UNCHANGED <<sideVars, rateVars, fileVars, dbVars, docVars, tasks, allocated, nframes, nflushes>>

\* sendSnapshot resumes with the result of its registry query.
SnapshotEntry(t) ==
    /\ t.kind = "snap" /\ t.pc = "entry"
    /\ LET c == t.conn
           l == t.key.listId
           entry == fetchRegistryEntry(dbLists, l)
           ok == entry # NoRow /\ isListVisibleTo(entry, ConnUser(c))
       IN  IF t.key.kind = "list" /\ ok /\ listDocCache[l] = NoDoc
           THEN \* loadOrGetListDoc has to query list_docs
                /\ tasks' = Spawn(Retire(tasks, t), [t EXCEPT !.pc = "load"])
                /\ emitted' = <<>>
                /\ UNCHANGED subscriptions
           ELSE LET first ==
                      IF t.key.kind = "registry"
                      THEN <<Snapshot(c, t.key, fetchAccessibleRegistry(dbLists, ConnUser(c)))>>
                      ELSE IF ~ok THEN <<ErrorFrame(c, "FORBIDDEN", "No access to list")>>
                      ELSE <<Snapshot(c, t.key, toFilteredListDoc(listDocCache[l]))>>
                    k == afterSnapshot(t, subscriptions, connections,
                                       listDocCache, bulletinsDoc)
                IN  /\ tasks' = Retire(tasks, t) (+) k.spawn
                    /\ emitted' = Send(first \o k.frames, connections)
                    /\ subscriptions' = k.subs
    /\ UNCHANGED <<sideVars, rateVars, fileVars, dbVars, docVars, connections, closed, allocated, nframes, nflushes>>

\* sendSnapshot resumes with the list document loadListDoc read: the cache
\* entry is overwritten with what the database held.
SnapshotLoaded(t) ==
    /\ t.kind = "snap" /\ t.pc = "load"
    /\ LET c == t.conn
           l == t.key.listId
           doc == loadedListDoc(dbListDocs, l)
           cache == [listDocCache EXCEPT ![l] = doc]
           k == afterSnapshot(t, subscriptions, connections, cache, bulletinsDoc)
       IN  /\ listDocCache' = cache
           /\ tasks' = Retire(tasks, t) (+) k.spawn
           /\ emitted' = Send(<<Snapshot(c, t.key, toFilteredListDoc(doc))>> \o k.frames,
                              connections)
           /\ subscriptions' = k.subs
    /\ UNCHANGED <<sideVars, rateVars, fileVars, dbVars, dirtyListIds, bulletinsDoc, bulletinsDirty, connections,
                   closed, allocated, nframes, nflushes>>

\* ------------------------------------------------ frames without a cost
\* A frame is taken only while the frame budget lasts.
Accept(c) ==
    /\ c \in connections
    /\ nframes < MaxFrames
    /\ nframes' = nframes + 1

\* consumeRateLimit refused the frame: the token bucket itself is modelled
\* in SpecRate; here a costed frame may be refused at any time.
RateLimited(c) ==
    /\ Accept(c)
    /\ emitted' = <<ErrorFrame(c, "RATE_LIMITED", "Too many requests")>>
    /\ UNCHANGED <<sideVars, rateVars, fileVars, dbVars, docVars, connections, closed, subscriptions, tasks,
                   allocated, nflushes>>

Hello(c) ==
    /\ Accept(c)
    /\ emitted' = <<>>
    /\ UNCHANGED <<sideVars, rateVars, fileVars, dbVars, docVars, connections, closed, subscriptions, tasks,
                   allocated, nflushes>>

BadFrameClosing(c) ==
    /\ Accept(c)
    /\ emitted' = <<ErrorFrame(c, "BAD_REQUEST", "Invalid message")>>
    /\ connections' = connections \ {c}
    /\ closed' = closed \cup {c}
    /\ UNCHANGED <<sideVars, rateVars, fileVars, dbVars, docVars, subscriptions, tasks,
                   allocated, nflushes>>

\* JSON.parse fails, the type is unknown or the selector is invalid: the
\* handler's catch answers BAD_REQUEST.
BadFrame(c) ==
    /\ Accept(c)
    /\ emitted' = <<ErrorFrame(c, "BAD_REQUEST", "Invalid message")>>
    /\ UNCHANGED <<sideVars, rateVars, fileVars, dbVars, docVars, connections, closed, subscriptions, tasks,
                   allocated, nflushes>>

subscribeReset(c, key, subs) == [subs EXCEPT ![c] = mapSet(@, key, initSyncState)]

\* subscribe(connection, context, descriptor), as far as its first await.
subscribe(c, key, subs) ==
    IF key \in DOMAIN subs[c] THEN subs
    ELSE [subs EXCEPT ![c] = mapSet(@, key, initSyncState)]

\* case 'subscribe': subscribe, sendSnapshot, flushSync.
Subscribe(c, key) ==
    /\ Accept(c)
    /\ LET subs == subscribe(c, key, subscriptions) IN
       IF key.kind = "list" /\ listDocCache[key.listId] = NoDoc
       THEN \* subscribe awaits loadListDoc
            /\ subscriptions' = subs
            /\ tasks' = Spawn(tasks, Task("subscribe", c, key, "load"))
            /\ emitted' = <<>>
       ELSE IF key.kind = "bulletins"
       THEN LET fl == flushSync(c, key, subs, connections, bulletinsDoc) IN
            /\ subscriptions' = fl.subs
            /\ emitted' = <<Snapshot(c, key, filterBulletins(bulletinsDoc, ConnUser(c)))>>
                          \o fl.frames
            /\ UNCHANGED tasks
       ELSE /\ subscriptions' = subs
            /\ tasks' = Spawn(tasks, SnapTask(c, key, "flush", <<>>))
            /\ emitted' = <<>>
    /\ UNCHANGED <<sideVars, rateVars, fileVars, dbVars, docVars, connections, closed, allocated, nflushes>>

\* subscribe resumes with the loaded list document and returns; the
\* handler goes on to sendSnapshot, which queries the registry.
SubscribeLoaded(t) ==
    /\ t.kind = "subscribe" /\ t.pc = "load"
    /\ listDocCache' = [listDocCache EXCEPT ![t.key.listId] =
                            loadedListDoc(dbListDocs, t.key.listId)]
    /\ tasks' = Spawn(Retire(tasks, t), SnapTask(t.conn, t.key, "flush", <<>>))
    /\ emitted' = <<>>
    /\ UNCHANGED <<sideVars, rateVars, fileVars, dbVars, dirtyListIds, bulletinsDoc, bulletinsDirty, connections,
                   closed, subscriptions, allocated, nframes, nflushes>>

Unsubscribe(c, key) ==
    /\ Accept(c)
    /\ subscriptions' = [subscriptions EXCEPT ![c] = mapDelete(@, key)]
    /\ emitted' = <<>>
    /\ UNCHANGED <<sideVars, rateVars, fileVars, dbVars, docVars, connections, closed, tasks, allocated, nflushes>>

\* The keys of a subscription map in the order the handler walks them.
RECURSIVE listKeysFrom(_, _)
listKeysFrom(m, l) ==
    IF l > GhostId THEN <<>>
    ELSE (IF ListKey(l) \in DOMAIN m THEN <<ListKey(l)>> ELSE <<>>) \o listKeysFrom(m, l + 1)
subscriptionKeys(m) ==
    (IF RegistryKey \in DOMAIN m THEN <<RegistryKey>> ELSE <<>>)
    \o (IF BulletinsKey \in DOMAIN m THEN <<BulletinsKey>> ELSE <<>>)
    \o listKeysFrom(m, 1)

\* case 'request_full_state': one snapshot, or one per subscription.
RequestFullState(c, keys) ==
    /\ Accept(c)
    /\ LET r == IF Len(keys) = 1 /\ keys[1].kind # "bulletins"
                THEN [frames |-> <<>>,
                      spawn |-> SetToBag({SnapTask(c, keys[1], None, <<>>)})]
                ELSE runSnapshots(c, keys, bulletinsDoc)
       IN  /\ tasks' = tasks (+) r.spawn
           /\ emitted' = r.frames
    /\ UNCHANGED <<sideVars, rateVars, fileVars, dbVars, docVars, connections, closed, subscriptions, allocated,
                   nflushes>>

\* ------------------------------------------------------- bulletin actions
BulletinTexts == {"", " a ", "b"}
BulletinActs ==
    {[type |-> "add_bulletin", text |-> x, visibility |-> v, bulletinId |-> 0] :
        x \in BulletinTexts, v \in Visibilities}
    \cup {[type |-> "edit_bulletin", text |-> x, visibility |-> None, bulletinId |-> b] :
        x \in BulletinTexts, b \in BulletinIds}
    \cup {[type |-> "delete_bulletin", text |-> None, visibility |-> None, bulletinId |-> b] :
        b \in BulletinIds}

handleBulletinAction(doc, userId, act) ==
    CASE act.type = "add_bulletin" -> addBulletin(doc, userId, act.text, act.visibility)
      [] act.type = "edit_bulletin" -> editBulletin(doc, userId, act.bulletinId, act.text)
      [] act.type = "delete_bulletin" -> deleteBulletin(doc, userId, act.bulletinId)
      [] OTHER -> Err("Unsupported bulletin action")

\* ws.ts calls saveBulletinDoc(context.bulletinsDoc), but bulletinStore.ts
\* declares saveBulletinDoc(db, doc): the document arrives as "db", "doc"
\* is undefined, and the returned promise rejects.
saveBulletinDocFromHandler == Err("save failed")


\* case 'bulletin_action': apply, then await saveBulletinDoc, then
\* broadcast.  Nothing here waits for I/O: the rejected save is settled.
BulletinHandled(c, act) ==
    /\ LET r == handleBulletinAction(bulletinsDoc, ConnUser(c), act)
           bdoc == IF r.ok THEN r.val ELSE bulletinsDoc
           b == broadcastDoc(BulletinsKey, connections, subscriptions,
                             listDocCache, bdoc)
       IN  /\ bulletinsDoc' = bdoc
           /\ bulletinsDirty' = (bulletinsDirty \/ r.ok)
           /\ IF r.ok /\ saveBulletinDocFromHandler.ok
              THEN /\ subscriptions' = b.subs
                   /\ emitted' = b.frames
              ELSE /\ emitted' = <<ErrorFrame(c, "BAD_REQUEST",
                                   IF r.ok THEN saveBulletinDocFromHandler.err ELSE r.err)>>
                   /\ UNCHANGED subscriptions

BulletinAction(c, act) ==
    /\ Accept(c)
    /\ act.type = "add_bulletin" => Len(bulletinsDoc.bulletins) < MaxBulletins
    /\ BulletinHandled(c, act)
    /\ UNCHANGED <<sideVars, rateVars, fileVars, dbVars, listDocCache, dirtyListIds, connections, closed, tasks,
                   allocated, nflushes>>

\* ------------------------------------------- registry actions (DB variant)
CollabInputs == {<<>>, <<"bob">>, <<"alice">>, <<"bob", "bob">>}
RegAct(type, l, name, vis, cs) ==
    [type |-> type, listId |-> l, name |-> name, visibility |-> vis,
     collaborators |-> cs]
RegistryActs ==
    {RegAct("create_list", 0, "a", v, cs) : v \in Visibilities, cs \in CollabInputs}
    \cup {RegAct("rename_list", l, "b", None, <<>>) : l \in AnyListId}
    \cup {RegAct("update_list_visibility", l, None, v, <<>>) :
            l \in AnyListId, v \in Visibilities}
    \cup {RegAct("set_collaborators", l, None, None, cs) :
            l \in AnyListId, cs \in CollabInputs}
    \cup {RegAct(ty, l, None, None, <<>>) :
            ty \in {"archive_list", "restore_list", "delete_list"}, l \in AnyListId}

\* markListDocDirty / forgetListDoc (listDocStore.ts)
markListDocDirty(cache, listId, doc) == [cache EXCEPT ![listId] = doc]
forgetListDoc(cache, listId) == [cache EXCEPT ![listId] = NoDoc]

\* case 'registry_action': every branch of handleRegistryAction starts with
\* a query.  create_list draws its id (randomUUID) before the INSERT.
RegistryAction(c, act) ==
    /\ Accept(c)
    /\ act.type = "create_list" => allocated < MaxLists
    /\ allocated' = IF act.type = "create_list" THEN allocated + 1 ELSE allocated
    /\ LET a == IF act.type = "create_list"
                THEN [act EXCEPT !.listId = allocated + 1] ELSE act
       IN  tasks' = Spawn(tasks, [Task("reg", c, RegistryKey,
                                       IF act.type = "create_list" THEN "insert"
                                       ELSE "fetch") EXCEPT !.act = a])
    /\ emitted' = <<>>
    /\ UNCHANGED <<sideVars, rateVars, fileVars, dbVars, docVars, connections, closed, subscriptions, nflushes>>

\* The handler fails: its catch answers BAD_REQUEST, nothing is broadcast.
Fail(t, message) ==
    /\ tasks' = Retire(tasks, t)
    /\ emitted' = Send(<<ErrorFrame(t.conn, "BAD_REQUEST", message)>>, connections)
    /\ UNCHANGED subscriptions

\* The handler's last statement: broadcastDoc(connections, context, key).
Finish(t, key, cache, bdoc) ==
    LET b == broadcastDoc(key, connections, subscriptions, cache, bdoc) IN
    /\ tasks' = Retire(tasks, t) (+) b.spawn
    /\ emitted' = b.frames
    /\ subscriptions' = b.subs

\* createListEntry: the INSERT INTO lists has run.
CreateInserted(t) ==
    /\ t.kind = "reg" /\ t.pc = "insert"
    /\ dbLists' = [dbLists EXCEPT ![t.act.listId] =
            Row(t.act.listId, ConnUser(t.conn), t.act.name, t.act.visibility, FALSE, {})]
    /\ tasks' = Spawn(Retire(tasks, t), [t EXCEPT !.pc = "collabs"])
    /\ emitted' = <<>>
    /\ UNCHANGED <<sideVars, rateVars, fileVars, dbListDocs, dbBulletinDoc, docVars, connections, closed,
                   subscriptions, allocated, nframes, nflushes>>

\* createListEntry: setCollaborators has stored the cleaned collaborators;
\* the handler marks the new list document dirty and broadcasts.
CreateFinished(t) ==
    /\ t.kind = "reg" /\ t.pc = "collabs" /\ t.act.type = "create_list"
    /\ LET l == t.act.listId
           cache == markListDocDirty(listDocCache, l, EmptyListDoc(l))
       IN  /\ dbLists' = [dbLists EXCEPT ![l] =
                    IF @ = NoRow THEN @
                    ELSE [@ EXCEPT !.collaborators =
                            normalizeCollaborators(t.act.collaborators, ConnUser(t.conn))]]
           /\ listDocCache' = cache
           /\ dirtyListIds' = dirtyListIds \cup {l}
           /\ Finish(t, RegistryKey, cache, bulletinsDoc)
    /\ UNCHANGED <<sideVars, rateVars, fileVars, dbListDocs, dbBulletinDoc, bulletinsDoc, bulletinsDirty,
                   connections, closed, allocated, nframes, nflushes>>

\* fetchRegistryEntry has returned: the owner check, then the statement.
\* set_collaborators is checked in the handler itself, the others in
\* registryStore.ts ensureOwner.
RegistryFetched(t) ==
    /\ t.kind = "reg" /\ t.pc = "fetch"
    /\ LET entry == fetchRegistryEntry(dbLists, t.act.listId) IN
       IF entry = NoRow \/ ~ensureOwner(entry, ConnUser(t.conn))
       THEN Fail(t, IF entry = NoRow /\ t.act.type # "set_collaborators"
                    THEN "List not found" ELSE "Forbidden")
       ELSE /\ tasks' = Spawn(Retire(tasks, t), [t EXCEPT !.pc = "write"])
            /\ emitted' = <<>>
            /\ UNCHANGED subscriptions
    /\ UNCHANGED <<sideVars, rateVars, fileVars, dbVars, docVars, connections, closed, allocated, nframes, nflushes>>

\* The UPDATE or DELETE of a registry action has run.  set_collaborators
\* first deletes the list's collaborator rows and, for a non-empty array,
\* goes on to insert the array as it came from the client.
RegistryWritten(t) ==
    /\ t.kind = "reg" /\ t.pc = "write"
    /\ LET l == t.act.listId
           ty == t.act.type
           row == dbLists[l]
           next == CASE row = NoRow -> row
                     [] ty = "rename_list" -> [row EXCEPT !.name = t.act.name]
                     [] ty = "update_list_visibility" ->
                            [row EXCEPT !.visibility = t.act.visibility]
                     [] ty = "set_collaborators" -> [row EXCEPT !.collaborators = {}]
                     [] ty = "archive_list" -> [row EXCEPT !.archived = TRUE]
                     [] ty = "restore_list" -> [row EXCEPT !.archived = FALSE]
                     [] OTHER -> NoRow
           cache == IF ty = "delete_list" THEN forgetListDoc(listDocCache, l)
                    ELSE listDocCache
       IN  /\ dbLists' = [dbLists EXCEPT ![l] = next]
           /\ dbListDocs' = IF ty = "delete_list"
                            THEN [dbListDocs EXCEPT ![l] = NoDoc] ELSE dbListDocs
           /\ listDocCache' = cache
           /\ dirtyListIds' = IF ty = "delete_list" THEN dirtyListIds \ {l}
                              ELSE dirtyListIds
           /\ IF ty = "set_collaborators" /\ t.act.collaborators # <<>>
              THEN /\ tasks' = Spawn(Retire(tasks, t), [t EXCEPT !.pc = "collabs"])
                   /\ emitted' = <<>>
                   /\ UNCHANGED subscriptions
              ELSE Finish(t, RegistryKey, cache, bulletinsDoc)
    /\ UNCHANGED <<sideVars, rateVars, fileVars, dbBulletinDoc, bulletinsDoc, bulletinsDirty, connections, closed,
                   allocated, nframes, nflushes>>

\* setCollaborators: the INSERT INTO list_collaborators has run.  It fails
\* on a repeated user (primary key) and on a deleted list (foreign key).
CollaboratorsInserted(t) ==
    /\ t.kind = "reg" /\ t.pc = "collabs" /\ t.act.type = "set_collaborators"
    /\ LET l == t.act.listId IN
       IF dbLists[l] = NoRow \/ HasDuplicates(t.act.collaborators)
       THEN Fail(t, "insert failed") /\ UNCHANGED dbLists
       ELSE /\ dbLists' = [dbLists EXCEPT ![l] =
                    [@ EXCEPT !.collaborators = SeqToSet(t.act.collaborators)]]
            /\ Finish(t, RegistryKey, listDocCache, bulletinsDoc)
    /\ UNCHANGED <<sideVars, rateVars, fileVars, dbListDocs, dbBulletinDoc, docVars, connections, closed,
                   allocated, nframes, nflushes>>

\* ----------------------------------------------- list actions (DB variant)
ListAct(type, itemId, label, value, checked) ==
    [type |-> type, itemId |-> itemId, label |-> label, value |-> value,
     checked |-> checked]
ListActs ==
    {ListAct("add_item", 0, x, None, FALSE) : x \in {"", " a "}}
    \cup {ListAct("update_item", i, "b", None, FALSE) : i \in ItemIds}
    \cup {ListAct(ty, 1, None, "a", FALSE) : ty \in {"set_item_quantity", "set_item_vendor"}}
    \cup {ListAct("set_item_notes", 1, None, x, FALSE) : x \in {"a", "long"}}
    \cup {ListAct("toggle_item_checked", 1, None, None, TRUE),
          ListAct("remove_item", 1, None, None, FALSE)}

\* The switch of handleListAction.
applyListAction(doc, entry, userId, act) ==
    CASE act.type = "add_item" -> addItem(doc, entry, userId, act.label, None, None)
      [] act.type = "update_item" -> updateItemLabel(doc, entry, userId, act.itemId, act.label)
      [] act.type = "set_item_quantity" ->
            setItemQuantity(doc, entry, userId, act.itemId, act.value)
      [] act.type = "set_item_vendor" -> setItemVendor(doc, entry, userId, act.itemId, act.value)
      [] act.type = "set_item_notes" -> setItemNotes(doc, entry, userId, act.itemId, act.value)
      [] act.type = "toggle_item_checked" ->
            toggleItemChecked(doc, entry, userId, act.itemId, act.checked)
      [] act.type = "remove_item" -> removeItem(doc, entry, userId, act.itemId)
      [] OTHER -> Err("Unsupported list action")

\* case 'list_action': handleListAction starts with fetchRegistryEntry.
ListAction(c, l, act) ==
    /\ Accept(c)
    /\ tasks' = Spawn(tasks, [Task("list", c, ListKey(l), "entry") EXCEPT !.act = act])
    /\ emitted' = <<>>
    /\ UNCHANGED <<sideVars, rateVars, fileVars, dbVars, docVars, connections, closed, subscriptions,
                   allocated, nflushes>>

\* handleListAction from the document on: the action, markListDocDirty,
\* and the handler's broadcastDoc.
ListApply(t, entry, cache) ==
    LET l == t.key.listId
        r == applyListAction(cache[l], entry, ConnUser(t.conn), t.act)
    IN  IF ~r.ok
        THEN /\ Fail(t, r.err)
             /\ listDocCache' = cache
             /\ UNCHANGED dirtyListIds
        ELSE /\ listDocCache' = markListDocDirty(cache, l, r.val)
             /\ dirtyListIds' = dirtyListIds \cup {l}
             /\ Finish(t, t.key, markListDocDirty(cache, l, r.val), bulletinsDoc)

\* fetchRegistryEntry has returned; loadOrGetListDoc answers from the cache
\* or queries list_docs.
ListEntryFetched(t) ==
    /\ t.kind = "list" /\ t.pc = "entry"
    /\ LET l == t.key.listId
           entry == fetchRegistryEntry(dbLists, l)
       IN  IF entry = NoRow \/ ~isListVisibleTo(entry, ConnUser(t.conn))
           THEN Fail(t, "List not accessible") /\ UNCHANGED <<listDocCache, dirtyListIds>>
           ELSE IF listDocCache[l] = NoDoc
           THEN /\ tasks' = Spawn(Retire(tasks, t), [t EXCEPT !.pc = "load", !.entry = entry])
                /\ emitted' = <<>>
                /\ UNCHANGED <<subscriptions, listDocCache, dirtyListIds>>
           ELSE ListApply(t, entry, listDocCache)
    /\ UNCHANGED <<sideVars, rateVars, fileVars, dbVars, bulletinsDoc, bulletinsDirty, connections, closed,
                   allocated, nframes, nflushes>>

\* loadListDoc has returned: the action runs on the loaded document with
\* the registry entry read before the load.
ListDocLoaded(t) ==
    /\ t.kind = "list" /\ t.pc = "load"
    /\ LET l == t.key.listId IN
       ListApply(t, t.entry, [listDocCache EXCEPT ![l] = loadedListDoc(dbListDocs, l)])
    /\ UNCHANGED <<sideVars, rateVars, fileVars, dbVars, bulletinsDoc, bulletinsDirty, connections, closed,
                   allocated, nframes, nflushes>>

\* ------------------------------------------------- sync frames (DB variant)
\* A sync message: the edit it carries ("bad": bytes Automerge rejects) and
\* whether the peer holds all of the server's changes.
SyncMsg(edit, caughtUp) == [type |-> "sync", edit |-> edit, caughtUp |-> caughtUp]
SyncMsgs(key) ==
    {SyncMsg(e, TRUE) : e \in (CASE key.kind = "list" -> ListEdits
                                 [] key.kind = "bulletins" -> BulletinEdits
                                 [] OTHER -> RegistryEdits)}
    \cup {SyncMsg(None, FALSE), SyncMsg("bad", FALSE)}

\* Automerge.receiveSyncMessage throws on bytes that are no sync message.
acceptsAnyBytes(msg) == FALSE
rejectsBytes(msg) == msg.edit = "bad"

\* handleSyncMessage from receiveSyncMessage on.
SyncApply(t, c, key, msg, subs, cache) ==
    LET doc == resolveDocForDescriptor(key, cache, bulletinsDoc)
        nextDoc == IF key.kind = "list" THEN applyListEdit(doc, msg.edit, ConnUser(c))
                   ELSE applyBulletinEdit(doc, msg.edit, ConnUser(c))
        held == key \in DOMAIN subs[c]
        r == receiveSyncMessage(doc, IF held THEN subs[c][key] ELSE initSyncState,
                                nextDoc, msg.caughtUp)
        subs1 == IF held THEN [subs EXCEPT ![c] = mapSet(@, key, r.state)] ELSE subs
        cache1 == IF key.kind = "list" THEN markListDocDirty(cache, key.listId, r.doc)
                  ELSE cache
        bdoc1 == IF key.kind = "bulletins" THEN r.doc ELSE bulletinsDoc
        b == broadcastDoc(key, connections, subs1, cache1, bdoc1)
    IN  IF rejectsBytes(msg)
        THEN /\ emitted' = Send(<<ErrorFrame(c, "BAD_REQUEST", "Invalid sync message")>>,
                                connections)
             /\ tasks' = t
             /\ listDocCache' = cache
             /\ UNCHANGED <<subscriptions, dirtyListIds, bulletinsDoc, bulletinsDirty>>
        ELSE /\ listDocCache' = cache1
             /\ dirtyListIds' = IF key.kind = "list" THEN dirtyListIds \cup {key.listId}
                                ELSE dirtyListIds
             /\ bulletinsDoc' = bdoc1
             /\ bulletinsDirty' = (bulletinsDirty \/ key.kind = "bulletins")
             /\ subscriptions' = b.subs
             /\ emitted' = b.frames
             /\ tasks' = t (+) b.spawn

SyncUnchecked(c, key, msg) ==
    /\ Accept(c)
    /\ IF key.kind = "registry"
       THEN /\ emitted' = <<ErrorFrame(c, "BAD_REQUEST", "Registry sync is not supported")>>
            /\ UNCHANGED <<docVars, subscriptions, tasks>>
       ELSE IF key.kind = "list" /\ listDocCache[key.listId] = NoDoc
       THEN /\ tasks' = Spawn(tasks, [Task("sync", c, key, "load") EXCEPT !.act = msg])
            /\ emitted' = <<>>
            /\ UNCHANGED <<docVars, subscriptions>>
       ELSE SyncApply(tasks, c, key, msg, subscriptions, listDocCache)
    /\ UNCHANGED <<sideVars, rateVars, fileVars, dbVars, connections, closed, allocated, nflushes>>

\* case 'sync': registry sync is refused, a subscription is required, and
\* a list document that is not cached is loaded first.
Sync(c, key, msg) ==
    /\ Accept(c)
    /\ IF key.kind = "registry" \/ key \notin DOMAIN subscriptions[c]
       THEN /\ emitted' = <<ErrorFrame(c, "BAD_REQUEST",
                                       IF key.kind = "registry"
                                       THEN "Registry sync is not supported"
                                       ELSE "Not subscribed to document")>>
            /\ UNCHANGED <<docVars, subscriptions, tasks>>
       ELSE IF key.kind = "list" /\ listDocCache[key.listId] = NoDoc
       THEN /\ tasks' = Spawn(tasks, [Task("sync", c, key, "load") EXCEPT !.act = msg])
            /\ emitted' = <<>>
            /\ UNCHANGED <<docVars, subscriptions>>
       ELSE SyncApply(tasks, c, key, msg, subscriptions, listDocCache)
    /\ UNCHANGED <<sideVars, rateVars, fileVars, dbVars, connections, closed, allocated, nflushes>>

\* loadListDoc has returned inside handleSyncMessage.  The handler holds the
\* Subscription object it looked up before the load; if the subscription
\* was removed meanwhile the new sync state lands in an object no map holds.
SyncDocLoaded(t) ==
    /\ t.kind = "sync" /\ t.pc = "load"
    /\ LET l == t.key.listId IN
       SyncApply(Retire(tasks, t), t.conn, t.key, t.act, subscriptions,
                 [listDocCache EXCEPT ![l] = loadedListDoc(dbListDocs, l)])
    /\ UNCHANGED <<sideVars, rateVars, fileVars, dbVars, connections, closed, allocated, nframes, nflushes>>

\* ------------------------------------------------ flush timer (index.ts)
\* Array.from(dirtyListIds), in ascending id order.
RECURSIVE dirtyIdsFrom(_, _)
dirtyIdsFrom(dirty, l) ==
    IF l > GhostId THEN <<>>
    ELSE (IF l \in dirty THEN <<l>> ELSE <<>>) \o dirtyIdsFrom(dirty, l + 1)

\* The loop of flushDirtyListDocs up to its next INSERT, then the bulletin
\* part of the timer callback.  The bytes to write are taken (Automerge.save)
\* before the query is awaited.
RECURSIVE flushFrom(_, _, _, _, _)
flushFrom(ids, dirty, cache, bdoc, bdirty) ==
    IF ids = <<>>
    THEN [dirty |-> dirty,
          spawn |-> IF bdirty
                    THEN SetToBag({[Task("flush", 0, BulletinsKey, "bulletins")
                                        EXCEPT !.doc = bdoc]})
                    ELSE EmptyBag]
    ELSE IF cache[Head(ids)] = NoDoc
    THEN flushFrom(Tail(ids), dirty \ {Head(ids)}, cache, bdoc, bdirty)
    ELSE [dirty |-> dirty,
          spawn |-> SetToBag({[Task("flush", 0, ListKey(Head(ids)), "list")
                                   EXCEPT !.rest = Tail(ids), !.doc = cache[Head(ids)]]})]

\* setInterval(..., FLUSH_INTERVAL_MS): a tick starts a flush whether or
\* not an earlier one is still writing, until shutdown() clears the timer.
FlushTick ==
    /\ process = "running"
    /\ nflushes < MaxFlushes
    /\ nflushes' = nflushes + 1
    /\ LET f == flushFrom(dirtyIdsFrom(dirtyListIds, 1), dirtyListIds, listDocCache,
                          bulletinsDoc, bulletinsDirty)
       IN  /\ dirtyListIds' = f.dirty
           /\ tasks' = tasks (+) f.spawn
    /\ emitted' = <<>>
    /\ UNCHANGED <<sideVars, rateVars, fileVars, dbVars, listDocCache, bulletinsDoc, bulletinsDirty, connections,
                   closed, subscriptions, allocated, nframes>>

\* The INSERT ... ON DUPLICATE KEY UPDATE into list_docs has run.  list_docs
\* references lists: for a list without a row the statement fails and the
\* timer callback ends in its catch.
FlushListWritten(t) ==
    /\ t.kind = "flush" /\ t.pc = "list" /\ t.then = None
    /\ LET l == t.key.listId IN
       IF fetchRegistryEntry(dbLists, l) = NoRow
       THEN /\ tasks' = Retire(tasks, t)
            /\ UNCHANGED <<dbListDocs, dirtyListIds>>
       ELSE LET f == flushFrom(t.rest, dirtyListIds \ {l}, listDocCache,
                               bulletinsDoc, bulletinsDirty)
            IN  /\ dbListDocs' = [dbListDocs EXCEPT ![l] = t.doc]
                /\ dirtyListIds' = f.dirty
                /\ tasks' = Retire(tasks, t) (+) f.spawn
    /\ emitted' = <<>>
    /\ UNCHANGED <<sideVars, rateVars, fileVars, dbLists, dbBulletinDoc, listDocCache, bulletinsDoc, bulletinsDirty,
                   connections, closed, subscriptions, allocated, nframes, nflushes>>

\* saveBulletinDoc(db, doc) has returned in the timer callback.
FlushBulletinsWritten(t) ==
    /\ t.kind = "flush" /\ t.pc = "bulletins" /\ t.then = None
    /\ dbBulletinDoc' = t.doc
    /\ bulletinsDirty' = FALSE
    /\ tasks' = Retire(tasks, t)
    /\ emitted' = <<>>
    /\ UNCHANGED <<sideVars, rateVars, fileVars, dbLists, dbListDocs, listDocCache, dirtyListIds, bulletinsDoc,
                   connections, closed, subscriptions, allocated, nframes, nflushes>>

\* ------------------------------------------------ shutdown (index.ts)
\* process.exit(0): the suspended functions and the sockets are gone.
ProcessExit ==
    /\ process' = "exited"
    /\ tasks' = EmptyBag
    /\ connections' = {}
    /\ closed' = Conns
    /\ subscriptions' = [c \in Conns |-> << >>]

\* The writes shutdown() awaits, told apart from those of a timer tick.
ForExit(bag) == SetToBag({[t EXCEPT !.then = "exit"] : t \in BagToSet(bag)})

\* SIGINT or SIGTERM: shutdown() clears the timer and runs the flush as
\* far as its first query; with nothing to write it returns and the
\* finally handler exits.
Shutdown ==
    /\ process = "running"
    /\ LET f == flushFrom(dirtyIdsFrom(dirtyListIds, 1), dirtyListIds, listDocCache,
                          bulletinsDoc, bulletinsDirty)
       IN  /\ dirtyListIds' = f.dirty
           /\ IF f.spawn = EmptyBag
              THEN ProcessExit
              ELSE /\ process' = "stopping"
                   /\ tasks' = tasks (+) ForExit(f.spawn)
                   /\ UNCHANGED <<connections, closed, subscriptions>>
    /\ emitted' = <<>>
    /\ UNCHANGED <<fsVars, probe, rateVars, fileVars, dbVars,
                   listDocCache, bulletinsDoc, bulletinsDirty, allocated, nframes, nflushes>>

\* The INSERT of shutdown()'s flushDirtyListDocs has run.  When it fails
\* shutdown() rejects, and the finally handler exits all the same.
ShutdownListWritten(t) ==
    /\ t.kind = "flush" /\ t.pc = "list" /\ t.then = "exit"
    /\ LET l == t.key.listId IN
       IF fetchRegistryEntry(dbLists, l) = NoRow
       THEN /\ ProcessExit
            /\ UNCHANGED <<dbListDocs, dirtyListIds>>
       ELSE LET f == flushFrom(t.rest, dirtyListIds \ {l}, listDocCache,
                               bulletinsDoc, bulletinsDirty)
            IN  /\ dbListDocs' = [dbListDocs EXCEPT ![l] = t.doc]
                /\ dirtyListIds' = f.dirty
                /\ IF f.spawn = EmptyBag
                   THEN ProcessExit
                   ELSE /\ tasks' = Retire(tasks, t) (+) ForExit(f.spawn)
                        /\ UNCHANGED <<process, connections, closed, subscriptions>>
    /\ emitted' = <<>>
    /\ UNCHANGED <<fsVars, probe, rateVars, fileVars, dbLists,
                   dbBulletinDoc, listDocCache, bulletinsDoc, bulletinsDirty, allocated,
                   nframes, nflushes>>

\* saveBulletinDoc(db, doc) has returned in shutdown(): the flag is
\* cleared, shutdown() returns and the finally handler exits.
ShutdownBulletinsWritten(t) ==
    /\ t.kind = "flush" /\ t.pc = "bulletins" /\ t.then = "exit"
    /\ dbBulletinDoc' = t.doc
    /\ bulletinsDirty' = FALSE
    /\ ProcessExit
    /\ emitted' = <<>>
    /\ UNCHANGED <<fsVars, probe, rateVars, fileVars, dbLists,
                   dbListDocs, listDocCache, dirtyListIds, bulletinsDoc, allocated,
                   nframes, nflushes>>

NextConn ==
    \/ \E c \in Conns : Connect(c)
    \/ \E c \in Conns : Close(c)
    \/ \E t \in BagToSet(tasks) : SnapshotEntry(t)
    \/ \E t \in BagToSet(tasks) : SnapshotLoaded(t)

NextSession ==
    \/ \E c \in Conns : RateLimited(c)
    \/ \E c \in Conns : Hello(c)
    \/ \E c \in Conns : BadFrame(c)
    \/ \E c \in Conns, key \in DocKeys : Subscribe(c, key)
    \/ \E t \in BagToSet(tasks) : SubscribeLoaded(t)
    \/ \E c \in Conns, key \in DocKeys : Unsubscribe(c, key)
    \/ \E c \in Conns, key \in DocKeys : RequestFullState(c, <<key>>)
    \/ \E c \in Conns : RequestFullState(c, subscriptionKeys(subscriptions[c]))

NextBulletin ==
    \E c \in Conns, act \in BulletinActs : BulletinAction(c, act)

NextRegistry ==
    \/ \E c \in Conns, act \in RegistryActs : RegistryAction(c, act)
    \/ \E t \in BagToSet(tasks) : CreateInserted(t)
    \/ \E t \in BagToSet(tasks) : CreateFinished(t)
    \/ \E t \in BagToSet(tasks) : RegistryFetched(t)
    \/ \E t \in BagToSet(tasks) : RegistryWritten(t)
    \/ \E t \in BagToSet(tasks) : CollaboratorsInserted(t)

NextList ==
    \/ \E c \in Conns, l \in AnyListId, act \in ListActs : ListAction(c, l, act)
    \/ \E t \in BagToSet(tasks) : ListEntryFetched(t)
    \/ \E t \in BagToSet(tasks) : ListDocLoaded(t)

NextSync ==
    \/ \E c \in Conns, key \in DocKeys : \E msg \in SyncMsgs(key) : Sync(c, key, msg)
    \/ \E t \in BagToSet(tasks) : SyncDocLoaded(t)

NextFlush ==
    \/ FlushTick
    \/ \E t \in BagToSet(tasks) : FlushListWritten(t)
    \/ \E t \in BagToSet(tasks) : FlushBulletinsWritten(t)

\* ================================================================ file variant
\* ------------------------------------------- registry actions (actions.ts)
changeLists(doc, lists) == [doc EXCEPT !.lists = lists, !.ver = doc.ver + 1]

\* listId is the randomUUID() the function draws.
createList(doc, userId, rawName, visibility, collaborators, listId) ==
    LET name == requireListName(rawName)
        cleanedCollabs == uniqueCollaborators(collaborators, userId)
        ownedCount == Cardinality({k \in 1..Len(doc.lists) :
                          doc.lists[k].ownerId = userId /\ ~doc.lists[k].archived})
    IN  IF ~name.ok THEN name
        ELSE IF ownedCount >= MAX_LISTS_PER_USER THEN Err("List limit reached")
        ELSE Ok(changeLists(doc, Append(doc.lists,
                Row(listId, userId, name.val, visibility, FALSE, cleanedCollabs))))

renameList(doc, userId, listId, rawName) ==
    LET name == requireListName(rawName)
        k == findIndex(doc.lists, listId)
    IN  IF ~name.ok THEN name
        ELSE IF k = 0 THEN Err("List not found")
        ELSE IF ~ensureCanEditMetadata(doc.lists[k], userId) THEN Err("Forbidden")
        ELSE Ok(changeLists(doc, [doc.lists EXCEPT ![k] = [@ EXCEPT !.name = name.val]]))

\* The shape shared by the owner-only changes of one entry.
changeOwned(doc, userId, listId, field, value) ==
    LET k == findIndex(doc.lists, listId) IN
    IF k = 0 THEN Err("List not found")
    ELSE IF ~ensureOwner(doc.lists[k], userId) THEN Err("Forbidden")
    ELSE Ok(changeLists(doc, [doc.lists EXCEPT ![k] = [@ EXCEPT ![field] = value]]))

updateListVisibility(doc, userId, listId, visibility) ==
    changeOwned(doc, userId, listId, "visibility", visibility)

setCollaborators(doc, userId, listId, collaborators) ==
    changeOwned(doc, userId, listId, "collaborators",
                uniqueCollaborators(collaborators, userId))

archiveList(doc, userId, listId, archived) ==
    changeOwned(doc, userId, listId, "archived", archived)

deleteListEntry(doc, userId, listId) ==
    LET k == findIndex(doc.lists, listId) IN
    IF k = 0 THEN Err("List not found")
    ELSE IF ~ensureOwner(doc.lists[k], userId) THEN Err("Forbidden")
    ELSE Ok(changeLists(doc, splice(doc.lists, k)))

\* The switch of handleRegistryAction (file variant), as far as the
\* registry document goes.
applyRegistryAction(doc, userId, act) ==
    CASE act.type = "create_list" ->
            createList(doc, userId, act.name, act.visibility, act.collaborators, act.listId)
      [] act.type = "rename_list" -> renameList(doc, userId, act.listId, act.name)
      [] act.type = "update_list_visibility" ->
            updateListVisibility(doc, userId, act.listId, act.visibility)
      [] act.type = "set_collaborators" ->
            setCollaborators(doc, userId, act.listId, act.collaborators)
      [] act.type = "archive_list" -> archiveList(doc, userId, act.listId, TRUE)
      [] act.type = "restore_list" -> archiveList(doc, userId, act.listId, FALSE)
      [] act.type = "delete_list" -> deleteListEntry(doc, userId, act.listId)
      [] OTHER -> Err("Unsupported registry action")

\* ------------------------------------------------------ filters (db.ts)
filterRegistryDocUnfiltered(doc, userId) == doc.lists

filterRegistryDoc(doc, userId) ==
    SelectSeq(doc.lists, LAMBDA entry : isListVisibleTo(entry, userId))

\* NoDoc stands for the null the function returns.
filterListDoc(doc, entry, userId) ==
    IF ~isListVisibleTo(entry, userId) THEN NoDoc ELSE toFilteredListDoc(doc)

\* entry of a list in the registry document, NoRow when there is none.
registryEntry(doc, listId) ==
    LET k == findIndex(doc.lists, listId) IN
    IF k = 0 THEN NoRow ELSE doc.lists[k]

\* ------------------------------------------------ ws.ts (file variant) helpers
fileResolveDoc(key, reg, cache, bdoc) ==
    CASE key.kind = "registry" -> reg
      [] key.kind = "bulletins" -> bdoc
      [] OTHER -> cache[key.listId]

\* sendSnapshot: the frames it writes (one frame, a snapshot or an error).
fileSendSnapshot(c, key, reg, cache, bdoc) ==
    CASE key.kind = "registry" -> <<Snapshot(c, key, filterRegistryDoc(reg, ConnUser(c)))>>
      [] key.kind = "bulletins" -> <<Snapshot(c, key, filterBulletins(bdoc, ConnUser(c)))>>
      [] OTHER ->
            LET entry == registryEntry(reg, key.listId) IN
            IF entry = NoRow \/ ~isListVisibleTo(entry, ConnUser(c))
            THEN <<ErrorFrame(c, "FORBIDDEN", "No access to list")>>
            ELSE IF cache[key.listId] = NoDoc
            THEN <<ErrorFrame(c, "NOT_FOUND", "List document unavailable")>>
            ELSE <<Snapshot(c, key, filterListDoc(cache[key.listId], entry, ConnUser(c)))>>

\* flushSync of the file variant: the registry is synced like any document.
fileFlushSync(c, key, subs, open, doc) ==
    IF key \notin DOMAIN subs[c] \/ c \notin open \/ doc = NoDoc
    THEN [subs |-> subs, frames |-> <<>>]
    ELSE LET g == generateSyncMessage(doc, subs[c][key]) IN
         [subs |-> [subs EXCEPT ![c] = mapSet(@, key, g.state)],
          frames |-> IF g.none THEN <<>> ELSE <<SyncFrame(c, key, doc, g.changes)>>]

RECURSIVE fileBroadcastFrom(_, _, _, _, _, _, _)
fileBroadcastFrom(i, key, open, subs, reg, cache, bdoc) ==
    IF i > Len(ConnSeq) THEN [subs |-> subs, frames |-> <<>>]
    ELSE LET c == ConnSeq[i] IN
         IF c \notin open \/ key \notin DOMAIN subs[c]
         THEN fileBroadcastFrom(i + 1, key, open, subs, reg, cache, bdoc)
         ELSE LET fl == fileFlushSync(c, key, subs, open,
                                      fileResolveDoc(key, reg, cache, bdoc))
                  more == fileBroadcastFrom(i + 1, key, open, fl.subs, reg, cache, bdoc)
              IN  [subs |-> more.subs,
                   frames |-> fileSendSnapshot(c, key, reg, cache, bdoc)
                              \o fl.frames \o more.frames]

fileBroadcastDoc(key, open, subs, reg, cache, bdoc) ==
    fileBroadcastFrom(1, key, open, subs, reg, cache, bdoc)

\* ------------------------------------------------ initial state (file variant)
\* index.ts loads registry.bin and bulletins.bin, or starts from empty
\* documents; list files are read on demand.
FileRows == {Row(1, "alice", "a", "private", FALSE, {}),
             Row(1, "alice", "a", "private", FALSE, {"bob"}),
             Row(1, "alice", "a", "public", FALSE, {})}

InitFile ==
    /\ RateIdle
    /\ SideIdle
    /\ \E r \in FileRows \cup {NoRow} :
         /\ registryFile = IF r = NoRow THEN NoDoc ELSE [ver |-> 1, lists |-> <<r>>]
         /\ allocated = IF r = NoRow THEN 0 ELSE 1
         /\ dbListDocs = [l \in ListIds |-> IF l = 1 /\ r # NoRow THEN OneItemDoc(1)
                                           ELSE NoDoc]
    /\ registryDoc = IF registryFile = NoDoc THEN EmptyRegistryDoc ELSE registryFile
    /\ dbLists = [l \in ListIds |-> NoRow]
    /\ dbBulletinDoc = NoDoc
    /\ bulletinsDoc = EmptyBulletinDoc
    /\ bulletinsDirty = FALSE
    /\ listDocCache = [l \in AnyListId |-> NoDoc]
    /\ dirtyListIds = {}
    /\ connections = {}
    /\ closed = {}
    /\ subscriptions = [c \in Conns |-> << >>]
    /\ tasks = EmptyBag
    /\ emitted = <<>>
    /\ nframes = 0
    /\ nflushes = 0

\* ------------------------------------------------ session loop (file variant)
\* wss.on('connection'): nothing is awaited.
FileConnect(c) ==
    /\ c \notin connections \cup closed
    /\ connections' = connections \cup {c}
    /\ LET open == connections \cup {c}
           subs == [subscriptions EXCEPT ![c] =
                       mapSet(mapSet(@, RegistryKey, initSyncState),
                              BulletinsKey, initSyncState)]
           f1 == fileFlushSync(c, RegistryKey, subs, open, registryDoc)
           f2 == fileFlushSync(c, BulletinsKey, f1.subs, open, bulletinsDoc)
       IN  /\ subscriptions' = f2.subs
           /\ emitted' = <<Welcome(c)>> \o f1.frames \o f2.frames
                         \o fileSendSnapshot(c, RegistryKey, registryDoc, listDocCache,
                                             bulletinsDoc)
                         \o fileSendSnapshot(c, BulletinsKey, registryDoc, listDocCache,
                                             bulletinsDoc)
    /\ UNCHANGED <<sideVars, rateVars, dbVars, docVars, closed, tasks, allocated, nframes, nflushes, fileVars>>

\* case 'subscribe': subscribe (which starts loading a list document that
\* is not cached, without waiting for it), sendSnapshot, flushSync.
FileSubscribe(c, key) ==
    /\ Accept(c)
    /\ LET subs == subscribe(c, key, subscriptions)
           fl == fileFlushSync(c, key, subs, connections,
                               fileResolveDoc(key, registryDoc, listDocCache, bulletinsDoc))
       IN  /\ subscriptions' = fl.subs
           /\ emitted' = fileSendSnapshot(c, key, registryDoc, listDocCache, bulletinsDoc)
                         \o fl.frames
           /\ tasks' = IF key.kind = "list" /\ listDocCache[key.listId] = NoDoc
                       THEN Spawn(tasks, Task("fsub", c, key, "load"))
                       ELSE tasks
    /\ UNCHANGED <<sideVars, rateVars, dbVars, docVars, connections, closed, allocated, nflushes, fileVars>>

\* loadOrGetListDoc: the file has been read (a missing file gives an empty
\* document) and the result is put into context.listDocs.
FileListLoaded(t) ==
    /\ t.kind = "fsub" /\ t.pc = "load"
    /\ listDocCache' = [listDocCache EXCEPT ![t.key.listId] =
                            loadedListDoc(dbListDocs, t.key.listId)]
    /\ tasks' = Retire(tasks, t)
    /\ emitted' = <<>>
    /\ UNCHANGED <<sideVars, rateVars, dbVars, dirtyListIds, bulletinsDoc, bulletinsDirty, connections,
                   closed, subscriptions, allocated, nframes, nflushes, fileVars>>

\* case 'registry_action': handleRegistryAction up to its first await, or
\* up to saveRegistryDoc when it awaits nothing.
FileRegistryAction(c, act) ==
    /\ Accept(c)
    /\ act.type = "create_list" => allocated < MaxLists
    /\ LET a == IF act.type = "create_list"
                THEN [act EXCEPT !.listId = allocated + 1] ELSE act
           r == applyRegistryAction(registryDoc, ConnUser(c), a)
           pc == CASE act.type = "create_list" -> "cload"
                   [] act.type = "delete_list" -> "unlink"
                   [] OTHER -> "save"
       IN  /\ allocated' = IF act.type = "create_list" /\ r.ok THEN allocated + 1
                           ELSE allocated
           /\ IF ~r.ok
              THEN /\ emitted' = <<ErrorFrame(c, "BAD_REQUEST", r.err)>>
                   /\ UNCHANGED <<registryDoc, tasks, listDocCache>>
              ELSE /\ registryDoc' = r.val
                   /\ listDocCache' = IF act.type = "delete_list" /\ act.listId \in AnyListId
                                      THEN forgetListDoc(listDocCache, act.listId)
                                      ELSE listDocCache
                   /\ tasks' = Spawn(tasks, [Task("freg", c, ListKey(a.listId), pc)
                                                EXCEPT !.act = a, !.doc = r.val])
                   /\ emitted' = <<>>
    /\ UNCHANGED <<sideVars, rateVars, dbVars, dirtyListIds, bulletinsDoc, bulletinsDirty, connections,
                   closed, subscriptions, nflushes, registryFile>>

\* create_list: loadListDoc has read (no) file; the new document goes into
\* context.listDocs and saveListDoc is awaited.
FileCreateLoaded(t) ==
    /\ t.kind = "freg" /\ t.pc = "cload"
    /\ LET l == t.key.listId
           doc == loadedListDoc(dbListDocs, l)
       IN  /\ listDocCache' = [listDocCache EXCEPT ![l] = doc]
           /\ tasks' = Spawn(Retire(tasks, t), [t EXCEPT !.pc = "csave", !.doc = doc])
    /\ emitted' = <<>>
    /\ UNCHANGED <<sideVars, rateVars, dbVars, dirtyListIds, bulletinsDoc, bulletinsDirty, connections,
                   closed, subscriptions, allocated, nframes, nflushes, fileVars>>

\* create_list: the list file is written; the handler goes on to
\* saveRegistryDoc(context.registryDoc).
FileCreateSaved(t) ==
    /\ t.kind = "freg" /\ t.pc = "csave"
    /\ dbListDocs' = [dbListDocs EXCEPT ![t.key.listId] = t.doc]
    /\ tasks' = Spawn(Retire(tasks, t), [t EXCEPT !.pc = "save", !.doc = registryDoc])
    /\ emitted' = <<>>
    /\ UNCHANGED <<sideVars, rateVars, dbLists, dbBulletinDoc, docVars, connections, closed, subscriptions,
                   allocated, nframes, nflushes, fileVars>>

\* delete_list: the list file is unlinked; then saveRegistryDoc.
FileDeleteUnlinked(t) ==
    /\ t.kind = "freg" /\ t.pc = "unlink"
    /\ dbListDocs' = [l \in ListIds |-> IF l = t.key.listId THEN NoDoc ELSE dbListDocs[l]]
    /\ tasks' = Spawn(Retire(tasks, t), [t EXCEPT !.pc = "save", !.doc = registryDoc])
    /\ emitted' = <<>>
    /\ UNCHANGED <<sideVars, rateVars, dbLists, dbBulletinDoc, docVars, connections, closed, subscriptions,
                   allocated, nframes, nflushes, fileVars>>

\* saveRegistryDoc has written the document it was called with; the
\* handler broadcasts the registry.
FileRegistrySaved(t) ==
    /\ t.kind = "freg" /\ t.pc = "save"
    /\ registryFile' = t.doc
    /\ LET b == fileBroadcastDoc(RegistryKey, connections, subscriptions, registryDoc,
                                 listDocCache, bulletinsDoc)
       IN  /\ subscriptions' = b.subs
           /\ emitted' = b.frames
    /\ tasks' = Retire(tasks, t)
    /\ UNCHANGED <<sideVars, rateVars, dbVars, docVars, connections, closed, allocated, nframes, nflushes,
                   registryDoc>>

\* case 'sync': handleSyncMessage of the file variant.  Any subscribed
\* document is merged, the registry included; nothing is saved or broadcast.
FileSync(c, key, msg) ==
    /\ Accept(c)
    /\ LET doc == fileResolveDoc(key, registryDoc, listDocCache, bulletinsDoc)
           refused == key \notin DOMAIN subscriptions[c] \/ doc = NoDoc \/ msg.edit = "bad"
           nextDoc == CASE key.kind = "list" -> applyListEdit(doc, msg.edit, ConnUser(c))
                        [] key.kind = "bulletins" -> applyBulletinEdit(doc, msg.edit, ConnUser(c))
                        [] OTHER -> applyRegistryEdit(doc, msg.edit, ConnUser(c))
           r == receiveSyncMessage(doc, subscriptions[c][key], nextDoc, msg.caughtUp)
       IN  IF refused
           THEN /\ emitted' = <<ErrorFrame(c, "BAD_REQUEST",
                                   IF key \notin DOMAIN subscriptions[c]
                                   THEN "Not subscribed to document"
                                   ELSE IF doc = NoDoc THEN "Document unavailable"
                                   ELSE "Invalid sync message")>>
                /\ UNCHANGED <<subscriptions, registryDoc, bulletinsDoc, listDocCache>>
           ELSE /\ emitted' = <<>>
                /\ subscriptions' = [subscriptions EXCEPT ![c] = mapSet(@, key, r.state)]
                /\ registryDoc' = IF key.kind = "registry" THEN r.doc ELSE registryDoc
                /\ bulletinsDoc' = IF key.kind = "bulletins" THEN r.doc ELSE bulletinsDoc
                /\ listDocCache' = IF key.kind = "list"
                                   THEN [listDocCache EXCEPT ![key.listId] = r.doc]
                                   ELSE listDocCache
    /\ UNCHANGED <<sideVars, rateVars, dbVars, dirtyListIds, bulletinsDirty, connections, closed, tasks,
                   allocated, nflushes, registryFile>>

NextFile ==
    \/ \E c \in Conns : FileConnect(c)
    \/ \E c \in Conns : Close(c)
    \/ \E c \in Conns, key \in DocKeys : FileSubscribe(c, key)
    \/ \E t \in BagToSet(tasks) : FileListLoaded(t)
    \/ \E c \in Conns, key \in DocKeys : Unsubscribe(c, key)
    \/ \E c \in Conns, act \in RegistryActs : FileRegistryAction(c, act)
    \/ \E t \in BagToSet(tasks) : FileCreateLoaded(t)
    \/ \E t \in BagToSet(tasks) : FileCreateSaved(t)
    \/ \E t \in BagToSet(tasks) : FileDeleteUnlinked(t)
    \/ \E t \in BagToSet(tasks) : FileRegistrySaved(t)
    \/ \E c \in Conns, key \in DocKeys : \E msg \in SyncMsgs(key) : FileSync(c, key, msg)

SpecFile == InitFile /\ [][NextFile]_vars

\* The session loop from a cold start: connections, subscriptions,
\* snapshots and bulletin actions.
NextDB ==
    \/ NextConn
    \/ NextSession
    \/ NextBulletin

SpecDB == InitDB /\ [][NextDB]_vars

\* Registry actions between two connected users.
NextRegistryLive ==
    \/ \E t \in BagToSet(tasks) : SnapshotEntry(t)
    \/ NextRegistry

SpecRegistry == InitLive /\ [][NextRegistryLive]_vars

\* List documents between two connected users: subscriptions, list
\* actions, sync frames and the flush timer.
NextListLive ==
    \/ \E t \in BagToSet(tasks) : SnapshotEntry(t)
    \/ \E c \in Conns, l \in AnyListId : Subscribe(c, ListKey(l))
    \/ \E t \in BagToSet(tasks) : SubscribeLoaded(t)
    \/ NextList
    \/ NextSync
    \/ NextFlush

SpecList == InitLive /\ [][NextListLive]_vars

\* delete_list between two connected users, with subscribes and list
\* actions before, during and after it.
DeleteList(l) == RegAct("delete_list", l, None, None, <<>>)

NextDeleteLive ==
    \/ \E t \in BagToSet(tasks) : SnapshotEntry(t)
    \/ \E c \in Conns, l \in ListIds : RegistryAction(c, DeleteList(l))
    \/ \E t \in BagToSet(tasks) : RegistryFetched(t)
    \/ \E t \in BagToSet(tasks) : RegistryWritten(t)
    \/ \E c \in Conns, l \in AnyListId : Subscribe(c, ListKey(l))
    \/ \E t \in BagToSet(tasks) : SubscribeLoaded(t)
    \/ NextList

SpecDelete == InitLive /\ [][NextDeleteLive]_vars

\* ------------------------------------------- registry actions with the real cap
\* The registry functions of actions.ts applied one after the other, with
\* MAX_LISTS_PER_USER as it is in the source.  alice creates lists and
\* archives, restores or deletes her first one; nframes counts the steps
\* that are not creations.
InitCap ==
    /\ RateIdle
    /\ SideIdle
    /\ registryDoc = EmptyRegistryDoc
    /\ registryFile = NoDoc
    /\ allocated = 0
    /\ dbLists = [l \in ListIds |-> NoRow]
    /\ dbListDocs = [l \in ListIds |-> NoDoc]
    /\ dbBulletinDoc = NoDoc
    /\ bulletinsDoc = EmptyBulletinDoc
    /\ bulletinsDirty = FALSE
    /\ listDocCache = [l \in AnyListId |-> NoDoc]
    /\ dirtyListIds = {}
    /\ connections = {}
    /\ closed = {}
    /\ subscriptions = [c \in Conns |-> << >>]
    /\ tasks = EmptyBag
    /\ emitted = <<>>
    /\ nframes = 0
    /\ nflushes = 0

CapActs ==
    {RegAct("create_list", 0, "a", "private", <<>>)}
    \cup {RegAct(ty, 1, None, None, <<>>) :
            ty \in {"archive_list", "restore_list", "delete_list"}}

CapStep(userId, act) ==
    /\ IF act.type = "create_list"
       THEN allocated < MAX_LISTS_PER_USER + 2 /\ UNCHANGED nframes
       ELSE nframes < MaxFrames /\ nframes' = nframes + 1
    /\ LET a == IF act.type = "create_list"
                THEN [act EXCEPT !.listId = allocated + 1] ELSE act
           r == applyRegistryAction(registryDoc, userId, a)
       IN  /\ r.ok
           /\ registryDoc' = r.val
    /\ allocated' = IF act.type = "create_list" THEN allocated + 1 ELSE allocated
    /\ UNCHANGED <<sideVars, rateVars, dbVars, docVars, connections, closed, subscriptions, tasks, emitted,
                   nflushes, registryFile>>

NextCap == \E act \in CapActs : CapStep("alice", act)

SpecCap == InitCap /\ [][NextCap]_vars

\* ------------------------------------------------ the rate limiter at work
\* Connection 1 sends add_bulletin frames (cost 1) while the clock
\* advances.  Both users are connected and hold their initial subscriptions.
MaxClockMs == 1250
StepMs == 250
Delays == {StepMs, 1000}

InitRate ==
    /\ RateIdle
    /\ SideIdle
    /\ dbLists = [l \in ListIds |-> NoRow]
    /\ allocated = 0
    /\ dbListDocs = [l \in ListIds |-> NoDoc]
    /\ dbBulletinDoc = NoDoc
    /\ bulletinsDoc = EmptyBulletinDoc
    /\ bulletinsDirty = FALSE
    /\ listDocCache = [l \in AnyListId |-> NoDoc]
    /\ dirtyListIds = {}
    /\ connections = Conns
    /\ closed = {}
    /\ subscriptions = LiveSubscriptions(bulletinsDoc)
    /\ tasks = EmptyBag
    /\ emitted = <<>>
    /\ nframes = 0
    /\ nflushes = 0
    /\ registryDoc = EmptyRegistryDoc
    /\ registryFile = NoDoc

\* Date.now() moves on.
Elapse(d) ==
    /\ now + d <= MaxClockMs
    /\ now' = now + d
    /\ UNCHANGED <<sideVars, rateLimiter, window, fileVars, dbVars, docVars, connections,
                   closed, subscriptions, tasks, emitted, allocated, nframes, nflushes>>

\* The observer starts its 1-second window.
OpenWindow ==
    /\ window.start = -1
    /\ window' = [start |-> now, accepted |-> 0]
    /\ UNCHANGED <<sideVars, rateLimiter, now, fileVars, dbVars, docVars, connections,
                   closed, subscriptions, tasks, emitted, allocated, nframes, nflushes>>

InWindow == window.start >= 0 /\ now - window.start <= 1000

AddBulletinFrame == [type |-> "add_bulletin", bulletinId |-> 0, text |-> "a",
                     visibility |-> "public"]

\* case 'bulletin_action' with its consumeRateLimit.
RateBulletinAction ==
    /\ LET r == consumeRateLimit(1, rateLimiter, CostAction, now) IN
       /\ rateLimiter' = r.bucket
       /\ window' = IF InWindow /\ r.ok THEN [window EXCEPT !.accepted = @ + 1]
                    ELSE window
       /\ IF r.ok THEN BulletinHandled(1, AddBulletinFrame)
          ELSE /\ emitted' = r.frames
               /\ UNCHANGED <<bulletinsDoc, bulletinsDirty, subscriptions>>
    /\ UNCHANGED <<sideVars, now, fileVars, dbVars, listDocCache, dirtyListIds, connections,
                   closed, tasks, allocated, nframes, nflushes>>

NextRate ==
    \/ \E d \in Delays : Elapse(d)
    \/ OpenWindow
    \/ RateBulletinAction

SpecRate == InitRate /\ [][NextRate]_vars

\* RATE_LIMIT_COST_SYNC = 0.25, in hundredths of a token.
CostSyncFree == 0 * TokenScale
CostSync == TokenScale \div 4

\* case 'sync' with its consumeRateLimit: the tokens are taken before
\* handleSyncMessage looks for the subscription.
RateSync(key) ==
    /\ LET r == consumeRateLimit(1, rateLimiter, CostSync, now) IN
       /\ rateLimiter' = r.bucket
       /\ IF ~r.ok
          THEN /\ emitted' = r.frames
               /\ UNCHANGED <<docVars, subscriptions, tasks>>
          ELSE IF key \notin DOMAIN subscriptions[1]
          THEN /\ emitted' = <<ErrorFrame(1, "BAD_REQUEST", "Not subscribed to document")>>
               /\ UNCHANGED <<docVars, subscriptions, tasks>>
          ELSE SyncApply(tasks, 1, key, SyncMsg(None, FALSE), subscriptions, listDocCache)
    /\ UNCHANGED <<sideVars, now, window, fileVars, dbVars, connections, closed, allocated,
                   nframes, nflushes>>

\* case 'bulletin_action' with its consumeRateLimit, for an edit of a
\* bulletin the document does not hold: the tokens are taken, the action
\* fails.
EditMissingFrame == [type |-> "edit_bulletin", bulletinId |-> MaxBulletins + 1,
                     text |-> "b", visibility |-> None]

RateEditAction ==
    /\ LET r == consumeRateLimit(1, rateLimiter, CostAction, now) IN
       /\ rateLimiter' = r.bucket
       /\ IF r.ok THEN BulletinHandled(1, EditMissingFrame)
          ELSE /\ emitted' = r.frames
               /\ UNCHANGED <<bulletinsDoc, bulletinsDirty, subscriptions>>
    /\ UNCHANGED <<sideVars, now, window, fileVars, dbVars, listDocCache, dirtyListIds,
                   connections, closed, tasks, allocated, nframes, nflushes>>

\* hello, unsubscribe of a document that is not subscribed to: frames the
\* handler serves without consumeRateLimit and without an answer.
RateFreeFrame ==
    /\ emitted' = <<>>
    /\ UNCHANGED <<sideVars, rateVars, fileVars, dbVars, docVars, connections, closed,
                   subscriptions, tasks, allocated, nframes, nflushes>>

\* The token bucket of connection 1 under action frames, sync frames and
\* frames that cost nothing, while time passes.
NextBucket ==
    \/ \E d \in Delays : Elapse(d)
    \/ RateEditAction
    \/ \E key \in {BulletinsKey, ListKey(1)} : RateSync(key)
    \/ RateFreeFrame

SpecBucket == InitRate /\ [][NextBucket]_vars

\* ------------------------------------------------ registry file with history
\* The file variant started on a registry.bin that earlier runs wrote:
\* up to MaxStored entries, of either owner, public or private, with or
\* without the other user as collaborator, in the order they were pushed.
MaxStored == 2

\* The first stored list is list 1; the others have ids no frame of the
\* run names.
StoredId(k) == IF k = 1 THEN 1 ELSE GhostId + k - 1

StoredEntry(k) ==
    {r \in {Row(StoredId(k), o, "a", v, FALSE, cs) :
                o \in Users, v \in Visibilities, cs \in SUBSET Users} :
        r.ownerId \notin r.collaborators}

StoredRegistries ==
    UNION {{s \in [1..n -> UNION {StoredEntry(k) : k \in 1..n}] :
                \A k \in 1..n : s[k].id = StoredId(k)} : n \in 0..MaxStored}

InitStored ==
    /\ RateIdle
    /\ SideIdle
    /\ \E lists \in StoredRegistries :
         /\ registryFile = IF lists = <<>> THEN NoDoc ELSE [ver |-> 1, lists |-> lists]
         /\ allocated = IF lists = <<>> THEN 0 ELSE 1
         /\ dbListDocs = [l \in ListIds |-> IF l = 1 /\ lists # <<>> THEN OneItemDoc(1)
                                           ELSE NoDoc]
    /\ registryDoc = IF registryFile = NoDoc THEN EmptyRegistryDoc ELSE registryFile
    /\ dbLists = [l \in ListIds |-> NoRow]
    /\ dbBulletinDoc = NoDoc
    /\ bulletinsDoc = EmptyBulletinDoc
    /\ bulletinsDirty = FALSE
    /\ listDocCache = [l \in AnyListId |-> NoDoc]
    /\ dirtyListIds = {}
    /\ connections = {}
    /\ closed = {}
    /\ subscriptions = [c \in Conns |-> << >>]
    /\ tasks = EmptyBag
    /\ emitted = <<>>
    /\ nframes = 0
    /\ nflushes = 0

\* The registry between connections of the file variant: connections,
\* registry subscriptions, registry actions and registry sync frames.
NextStored ==
    \/ \E c \in Conns : FileConnect(c)
    \/ \E c \in Conns : Close(c)
    \/ \E c \in Conns : FileSubscribe(c, RegistryKey)
    \/ \E c \in Conns : Unsubscribe(c, RegistryKey)
    \/ \E c \in Conns, act \in RegistryActs : FileRegistryAction(c, act)
    \/ \E t \in BagToSet(tasks) : FileCreateLoaded(t)
    \/ \E t \in BagToSet(tasks) : FileCreateSaved(t)
    \/ \E t \in BagToSet(tasks) : FileDeleteUnlinked(t)
    \/ \E t \in BagToSet(tasks) : FileRegistrySaved(t)
    \/ \E c \in Conns : \E msg \in SyncMsgs(RegistryKey) : FileSync(c, RegistryKey, msg)

SpecStored == InitStored /\ [][NextStored]_vars

\* ------------------------------------------------ shutdown under load
\* Two connected users send sync frames while the flush timer runs and a
\* shutdown signal arrives.
NextShutdown ==
    \/ \E t \in BagToSet(tasks) : SnapshotEntry(t)
    \/ \E c \in Conns, l \in AnyListId : Subscribe(c, ListKey(l))
    \/ \E t \in BagToSet(tasks) : SubscribeLoaded(t)
    \/ NextSync
    \/ NextFlush
    \/ Shutdown
    \/ \E t \in BagToSet(tasks) : ShutdownListWritten(t)
    \/ \E t \in BagToSet(tasks) : ShutdownBulletinsWritten(t)

SpecShutdown == InitLive /\ [][NextShutdown]_vars

\* ------------------------------------------------ subscriptions come and go
\* Two connected users subscribe, unsubscribe, ask for snapshots, close and
\* send sync frames, whose handler broadcasts the document.
NextUnsubscribe ==
    \/ \E t \in BagToSet(tasks) : SnapshotEntry(t)
    \/ \E t \in BagToSet(tasks) : SnapshotLoaded(t)
    \/ \E c \in Conns : Close(c)
    \/ \E c \in Conns, key \in DocKeys : Subscribe(c, key)
    \/ \E t \in BagToSet(tasks) : SubscribeLoaded(t)
    \/ \E c \in Conns, key \in DocKeys : Unsubscribe(c, key)
    \/ \E c \in Conns, key \in DocKeys : RequestFullState(c, <<key>>)
    \/ \E c \in Conns : RequestFullState(c, subscriptionKeys(subscriptions[c]))
    \/ NextSync

SpecUnsubscribe == InitLive /\ [][NextUnsubscribe]_vars

\* ------------------------------------------------ connecting under traffic
\* Users connect and close while connected users send sync frames, whose
\* handler broadcasts the document.
NextArrival ==
    \/ \E c \in Conns : Connect(c)
    \/ \E c \in Conns : Close(c)
    \/ \E t \in BagToSet(tasks) : SnapshotEntry(t)
    \/ \E c \in Conns, key \in {RegistryKey, BulletinsKey} :
          \E msg \in SyncMsgs(key) : Sync(c, key, msg)

SpecArrival == InitDB /\ [][NextArrival]_vars

\* ------------------------------------------------ concurrent writeFileAtomic
\* Promise.all over writeFileAtomic(target, payload): every call runs
\* fs.writeFile (open with O_CREAT | O_TRUNC, write, close) and then
\* fs.rename; each of these is one operation of the thread pool, and the
\* operations of different calls interleave freely.
InitAtomic ==
    /\ RateIdle
    /\ directory = [n \in FileNames |-> 0]
    /\ inodes = <<>>
    /\ writers = [w \in WriterIds |-> NoWriter]
    /\ tmpNaming \in {"fixed", "unique"}
    /\ process = "running"
    /\ probe = NoProbe
    /\ dbLists = [l \in ListIds |-> NoRow]
    /\ allocated = 0
    /\ dbListDocs = [l \in ListIds |-> NoDoc]
    /\ dbBulletinDoc = NoDoc
    /\ bulletinsDoc = EmptyBulletinDoc
    /\ bulletinsDirty = FALSE
    /\ listDocCache = [l \in AnyListId |-> NoDoc]
    /\ dirtyListIds = {}
    /\ connections = {}
    /\ closed = {}
    /\ subscriptions = [c \in Conns |-> << >>]
    /\ tasks = EmptyBag
    /\ emitted = <<>>
    /\ nframes = 0
    /\ nflushes = 0
    /\ registryDoc = EmptyRegistryDoc
    /\ registryFile = NoDoc

serverVars == <<process, probe, rateVars, fileVars, dbVars, docVars, connections, closed, subscriptions,
                tasks, emitted, allocated, nframes, nflushes>>

\* fs.writeFile opens the temp file: a new empty file, or the file of that
\* name emptied.
WriteFileOpen(w) ==
    /\ writers[w].pc = "idle"
    /\ LET name == tmpPath(tmpNaming, w)
           ino == directory[name]
       IN  IF ino = 0
           THEN /\ inodes' = Append(inodes, <<>>)
                /\ directory' = [directory EXCEPT ![name] = Len(inodes) + 1]
                /\ writers' = [writers EXCEPT ![w] = [pc |-> "write", fd |-> Len(inodes) + 1]]
           ELSE /\ inodes' = [inodes EXCEPT ![ino] = <<>>]
                /\ UNCHANGED directory
                /\ writers' = [writers EXCEPT ![w] = [pc |-> "write", fd |-> ino]]
    /\ UNCHANGED <<tmpNaming, serverVars>>

\* fs.writeFile writes the data through its handle and closes it.
WriteFileData(w) ==
    /\ writers[w].pc = "write"
    /\ inodes' = [inodes EXCEPT ![writers[w].fd] = pwrite(@, Payload(w))]
    /\ writers' = [writers EXCEPT ![w] = [@ EXCEPT !.pc = "rename"]]
    /\ UNCHANGED <<directory, tmpNaming, serverVars>>

\* fs.rename(tmpPath, targetPath).  Without the temp file it fails with
\* ENOENT and the call rejects (the variant with names of its own first
\* tries to unlink the temp file and ignores that this fails too).
RenameTmp(w) ==
    /\ writers[w].pc = "rename"
    /\ LET name == tmpPath(tmpNaming, w) IN
       IF directory[name] # 0
       THEN /\ directory' = [directory EXCEPT ![targetPath] = directory[name],
                                              ![name] = 0]
            /\ writers' = [writers EXCEPT ![w] = [@ EXCEPT !.pc = "done"]]
       ELSE /\ UNCHANGED directory
            /\ writers' = [writers EXCEPT ![w] = [@ EXCEPT !.pc = "failed"]]
    /\ UNCHANGED <<inodes, tmpNaming, serverVars>>

NextAtomic ==
    \/ \E w \in WriterIds : WriteFileOpen(w)
    \/ \E w \in WriterIds : WriteFileData(w)
    \/ \E w \in WriterIds : RenameTmp(w)

SpecAtomic == InitAtomic /\ [][NextAtomic]_vars

\* fs.writeFile rejects after it has created the temp file (the disk is
\* full, an I/O error): the call is outside the try block and nothing
\* removes the file.
WriteFileFails(w) ==
    /\ writers[w].pc = "write"
    /\ writers' = [writers EXCEPT ![w] = [@ EXCEPT !.pc = "failed"]]
    /\ UNCHANGED <<directory, inodes, tmpNaming, serverVars>>

\* fs.rename rejects although the temp file is there (the target cannot be
\* replaced).  The variant with names of its own unlinks the temp file
\* before it rethrows; the variant with the fixed name only rethrows.
RenameFails(w) ==
    /\ writers[w].pc = "rename"
    /\ directory[tmpPath(tmpNaming, w)] # 0
    /\ directory' = IF tmpNaming = "unique"
                    THEN [directory EXCEPT ![tmpPath(tmpNaming, w)] = 0]
                    ELSE directory
    /\ writers' = [writers EXCEPT ![w] = [@ EXCEPT !.pc = "failed"]]
    /\ UNCHANGED <<inodes, tmpNaming, serverVars>>

\* writeFileAtomic on a file system that may refuse a write or a rename.
NextFailing ==
    \/ \E w \in WriterIds : WriteFileOpen(w)
    \/ \E w \in WriterIds : WriteFileData(w)
    \/ \E w \in WriterIds : WriteFileFails(w)
    \/ \E w \in WriterIds : RenameTmp(w)
    \/ \E w \in WriterIds : RenameFails(w)

SpecFailing == InitAtomic /\ [][NextFailing]_vars

\* ------------------------------------------------ a domain action on its own
\* The server at rest: nothing stored, nobody connected.
ServerIdle ==
    /\ dbLists = [l \in ListIds |-> NoRow]
    /\ allocated = 0
    /\ dbListDocs = [l \in ListIds |-> NoDoc]
    /\ dbBulletinDoc = NoDoc
    /\ bulletinsDoc = EmptyBulletinDoc
    /\ bulletinsDirty = FALSE
    /\ listDocCache = [l \in AnyListId |-> NoDoc]
    /\ dirtyListIds = {}
    /\ connections = {}
    /\ closed = {}
    /\ subscriptions = [c \in Conns |-> << >>]
    /\ tasks = EmptyBag
    /\ emitted = <<>>
    /\ nframes = 0
    /\ nflushes = 0
    /\ registryDoc = EmptyRegistryDoc
    /\ registryFile = NoDoc

\* List documents of up to MaxProbeItems items, checked or not, and the
\* registry entries of list 1 they may come with.
MaxProbeItems == 2
MaxApplied == 2

ProbeItem(i, checked) ==
    [id |-> i, label |-> "a", addedBy |-> "alice", checked |-> checked,
     quantity |-> None, vendor |-> None, notes |-> None]

ProbeDocs ==
    UNION {{[listId |-> 1, ver |-> n, items |-> [i \in 1..n |-> ProbeItem(i, f[i])]] :
                f \in [1..n -> BOOLEAN]} : n \in 0..MaxProbeItems}

ProbeEntries ==
    {Row(1, "alice", "a", v, arch, cs) :
        v \in Visibilities, arch \in BOOLEAN, cs \in {{}, {"bob"}}}

InitToggle ==
    /\ RateIdle
    /\ directory = [n \in FileNames |-> 0]
    /\ inodes = <<>>
    /\ writers = [w \in WriterIds |-> NoWriter]
    /\ tmpNaming = "fixed"
    /\ process = "running"
    /\ ServerIdle
    /\ \E doc \in ProbeDocs, entry \in ProbeEntries, userId \in Users,
          itemId \in 1..(MaxProbeItems + 1), checked \in BOOLEAN :
         probe = [doc |-> doc, entry |-> entry, userId |-> userId, itemId |-> itemId,
                  checked |-> checked, results |-> <<>>, error |-> None]

\* The same toggle_item_checked action is applied to the document the
\* last application returned.
ApplyToggle ==
    /\ probe.error = None
    /\ Len(probe.results) < MaxApplied
    /\ LET doc == IF probe.results = <<>> THEN probe.doc
                  ELSE probe.results[Len(probe.results)]
           r == toggleItemChecked(doc, probe.entry, probe.userId, probe.itemId,
                                  probe.checked)
       IN  probe' = IF r.ok THEN [probe EXCEPT !.results = Append(@, r.val)]
                    ELSE [probe EXCEPT !.error = r.err]
    /\ UNCHANGED <<fsVars, process, rateVars, fileVars, dbVars, docVars, connections, closed,
                   subscriptions, tasks, emitted, allocated, nframes, nflushes>>

SpecToggle == InitToggle /\ [][ApplyToggle]_vars

\* Bulletin actions against the flush timer: every change of the bulletin
\* document comes from an action whose save in the handler has failed.
NextRetry ==
    \/ \E c \in Conns, act \in BulletinActs : BulletinAction(c, act)
    \/ FlushTick
    \/ \E t \in BagToSet(tasks) : FlushBulletinsWritten(t)

SpecRetry == InitLive /\ [][NextRetry]_vars

\* ===================================================================== claims
\* C1: no snapshot or sync frame that refers to a list goes to a connection
\* whose user the list's registry entry is not visible to.
C1_NoListFrameToOutsider ==
    \A i \in 1..Len(emitted) :
        LET f == emitted[i]
            entry == fetchRegistryEntry(dbLists, f.doc.listId)
        IN  (f.type \in {"snapshot", "sync"} /\ f.doc.kind = "list" /\ entry # NoRow)
                => isListVisibleTo(entry, ConnUser(f.to))

\* C2: when the handling of a subscribe for a list ends and the list has no
\* registry entry, or one that is not visible to the connection's user, the
\* connection's subscription map has no entry for the list.
AccessibleTo(entry, userId) == entry # NoRow /\ isListVisibleTo(entry, userId)

C2_SubscribeRefused ==
    [][\A t \in BagToSet(tasks) :
          ( /\ t.kind = "snap" /\ t.then = "flush" /\ t.key.kind = "list"
            /\ SnapshotEntry(t)
            /\ ~AccessibleTo(fetchRegistryEntry(dbLists, t.key.listId), ConnUser(t.conn))
            /\ t.conn \in connections )
          => t.key \notin DOMAIN subscriptions'[t.conn]]_vars

\* C3: a step that changes the bulletins document sends every open
\* connection subscribed to the bulletins a snapshot of the new document.
C3_MutationBroadcast ==
    [][bulletinsDoc' # bulletinsDoc =>
          \A c \in connections :
              BulletinsKey \in DOMAIN subscriptions[c] =>
                  \E i \in 1..Len(emitted') :
                      emitted'[i] = Snapshot(c, BulletinsKey,
                                             filterBulletins(bulletinsDoc', ConnUser(c)))]_vars

\* C4: a rename, visibility change, collaborator change, archive, restore
\* or delete issued by a user who is not the owner of the entry fails and
\* leaves the registry document as it was.
C4_OwnerOnlyMetadata ==
    [][\A c \in Conns, act \in RegistryActs :
          ( /\ act.type # "create_list"
            /\ FileRegistryAction(c, act)
            /\ registryEntry(registryDoc, act.listId) # NoRow
            /\ registryEntry(registryDoc, act.listId).ownerId # ConnUser(c) )
          => /\ registryDoc' = registryDoc
             /\ \E m \in {"Forbidden", "Name required", "Name too long"} :
                   emitted' = <<ErrorFrame(c, "BAD_REQUEST", m)>>]_vars

\* C5: a sync frame for the registry is answered with BAD_REQUEST and
\* leaves the registry document as it was.
C5_RegistrySyncDisabled ==
    [][\A c \in Conns, msg \in SyncMsgs(RegistryKey) :
          FileSync(c, RegistryKey, msg)
          => /\ registryDoc' = registryDoc
             /\ \E f \in SeqToSet(emitted') :
                   f.type = "error" /\ f.to = c /\ f.code = "BAD_REQUEST"]_vars

\* C6: when a flush pass returns and no other pass is running, every list
\* document and the bulletins document are persisted as cached, unless the
\* document is still marked dirty.
Persisted ==
    /\ \A l \in ListIds :
          (dbLists[l] # NoRow /\ listDocCache[l] # NoDoc /\ l \notin dirtyListIds)
              => dbListDocs[l] \in {listDocCache[l], NoDoc}
    /\ ~bulletinsDirty => dbBulletinDoc \in {bulletinsDoc, NoDoc}

C6_FlushPersistsCache ==
    [][\A t \in BagToSet(tasks) :
          ( /\ t.kind = "flush"
            /\ FlushListWritten(t) \/ FlushBulletinsWritten(t)
            /\ \A u \in BagToSet(tasks') : u.kind # "flush" )
          => Persisted']_vars

\* C7: no user owns more than MAX_LISTS_PER_USER lists that are not archived.
OwnedActive(doc, userId) ==
    Cardinality({k \in 1..Len(doc.lists) :
                    doc.lists[k].ownerId = userId /\ ~doc.lists[k].archived})

C7_ListCap == \A u \in Users : OwnedActive(registryDoc, u) <= MAX_LISTS_PER_USER

\* C8: no list entry names its owner among its collaborators.
C8_OwnerNotCollaborator ==
    \A l \in ListIds :
        dbLists[l] # NoRow => dbLists[l].ownerId \notin dbLists[l].collaborators

\* C9: a list action changes the list document only if the registry entry
\* handed to it is editable by the caller (not archived, and public, owned
\* by the caller or naming the caller as collaborator); otherwise the
\* document stays as it was, nothing is marked dirty, and the handler ends
\* with an error frame.
editableTo(entry, userId) ==
    /\ entry # NoRow
    /\ ~entry.archived
    /\ \/ entry.visibility = "public"
       \/ entry.ownerId = userId
       \/ userId \in entry.collaborators

C9_ListActionNeedsEditable ==
    [][\A t \in BagToSet(tasks) :
          (t.kind = "list" /\ (ListEntryFetched(t) \/ ListDocLoaded(t)))
          => LET l == t.key.listId
                 entry == IF t.pc = "entry" THEN fetchRegistryEntry(dbLists, l) ELSE t.entry
                 base == IF t.pc = "entry" THEN listDocCache[l]
                         ELSE loadedListDoc(dbListDocs, l)
                 waiting == [t EXCEPT !.pc = "load", !.entry = entry]
             IN  ~editableTo(entry, ConnUser(t.conn))
                 => /\ listDocCache'[l] = base
                    /\ dirtyListIds' = dirtyListIds
                    /\ \/ tasks' = Spawn(Retire(tasks, t), waiting)
                       \/ \E m \in {"List not accessible", "List is archived", "Forbidden"} :
                             emitted' = Send(<<ErrorFrame(t.conn, "BAD_REQUEST", m)>>,
                                             connections)]_vars

\* The owner's list action on her archived list has been refused.
C9_Witness ==
    /\ dbLists[1] # NoRow /\ dbLists[1].archived
    /\ listDocCache[1] = OneItemDoc(1)
    /\ dirtyListIds = {}
    /\ nframes = 1
    /\ tasks = EmptyBag
    /\ emitted = <<ErrorFrame(1, "BAD_REQUEST", "List is archived")>>

\* C10: edit_bulletin and delete_bulletin issued by anyone but the author
\* of the bulletin leave the bulletins document as it was and are answered
\* with an error frame.
C10_BulletinAuthorOnly ==
    [][\A c \in Conns, act \in BulletinActs :
          ( /\ act.type \in {"edit_bulletin", "delete_bulletin"}
            /\ BulletinAction(c, act)
            /\ \E k \in 1..Len(bulletinsDoc.bulletins) :
                  /\ bulletinsDoc.bulletins[k].id = act.bulletinId
                  /\ bulletinsDoc.bulletins[k].authorId # ConnUser(c) )
          => /\ bulletinsDoc' = bulletinsDoc
             /\ \E m \in {"Forbidden", "Text must be non-empty", "Text exceeds allowed length"} :
                   emitted' = <<ErrorFrame(c, "BAD_REQUEST", m)>>]_vars

\* bob's edit or delete of alice's bulletin has been refused.
C10_Witness ==
    /\ bulletinsDoc = OneBulletinDoc
    /\ nframes = 1
    /\ emitted = <<ErrorFrame(2, "BAD_REQUEST", "Forbidden")>>

\* C11: while no time has passed since the connection was set up, an
\* add_bulletin frame adds one bulletin as long as fewer than 40 were added;
\* the next frame, the 41st, is answered with RATE_LIMITED and leaves the
\* bulletins document, and so every later snapshot of it, at 40 bulletins.
RateLimitedFrame == <<ErrorFrame(1, "RATE_LIMITED", "Too many requests")>>

C11_BurstOfForty ==
    [][(now = 0 /\ RateBulletinAction) =>
          IF Len(bulletinsDoc.bulletins) < RATE_LIMIT_CAPACITY
          THEN /\ Len(bulletinsDoc'.bulletins) = Len(bulletinsDoc.bulletins) + 1
               /\ emitted' # RateLimitedFrame
          ELSE /\ bulletinsDoc' = bulletinsDoc
               /\ Len(filterBulletins(bulletinsDoc', "alice")) = RATE_LIMIT_CAPACITY
               /\ emitted' = RateLimitedFrame]_vars

\* The 41st frame of the burst has been refused.
C11_Witness ==
    /\ now = 0
    /\ Len(bulletinsDoc.bulletins) = RATE_LIMIT_CAPACITY
    /\ rateLimiter.tokens = 0
    /\ emitted = RateLimitedFrame

\* C12: within a window of 1 second at most 60 action frames of the
\* connection are accepted (capacity 40 plus 20 refilled), and once 60 are
\* accepted every further action frame in the window is answered with
\* RATE_LIMITED.
WindowMax == RATE_LIMIT_CAPACITY + RATE_LIMIT_REFILL_PER_SECOND

C12_SixtyPerSecond ==
    [][(RateBulletinAction /\ InWindow) =>
          /\ window'.accepted <= WindowMax
          /\ window.accepted = WindowMax => emitted' = RateLimitedFrame]_vars

\* 60 frames were accepted inside the window and the next one was refused.
C12_Witness ==
    /\ InWindow
    /\ window.accepted = WindowMax
    /\ emitted = RateLimitedFrame

\* C13: a frame refused by the rate limiter takes no tokens from the
\* bucket, changes no document, subscription, sync state, dirty mark or
\* stored blob, starts nothing, and is answered with exactly one
\* RATE_LIMITED error frame to the sender.
C13_RefusedFrameDropped ==
    [][(RateBulletinAction /\ emitted' = RateLimitedFrame) =>
          /\ rateLimiter'.tokens >= rateLimiter.tokens
          /\ UNCHANGED <<docVars, dbVars, fileVars, subscriptions, tasks, connections>>]_vars

\* A frame was refused after time had passed: the refusal refilled the bucket.
C13_Witness ==
    /\ emitted = RateLimitedFrame
    /\ rateLimiter.lastRefill > 0
    /\ rateLimiter.tokens < CostAction

\* C14: every list subscription of an open connection names a list that has
\* a registry entry.
C14_SubscribedListsExist ==
    \A c \in connections :
        \A key \in DOMAIN subscriptions[c] :
            key.kind = "list" => fetchRegistryEntry(dbLists, key.listId) # NoRow

\* C15: once delete_list has removed the registry entry of a list, the list
\* has neither a cached document nor a stored blob.
C15_NoDocAfterDelete ==
    \A l \in ListIds :
        (l <= allocated /\ dbLists[l] = NoRow)
            => listDocCache[l] = NoDoc /\ dbListDocs[l] = NoDoc

\* C16: a frame of a connection takes effect only when the handling of the
\* connection's earlier frames is complete: no bulletin action of a
\* connection changes the bulletins document while the handler of an earlier
\* subscribe frame of the same connection still waits for its list document.
C16_FramesInOrder ==
    [][\A c \in Conns, act \in BulletinActs :
          (BulletinAction(c, act) /\ bulletinsDoc' # bulletinsDoc)
          => ~\E t \in BagToSet(tasks) : t.kind = "subscribe" /\ t.conn = c]_vars

\* C17: when the snapshot of a subscribe is due for a private list whose
\* owner and collaborators do not include the connection's user, the
\* connection gets an error frame with code FORBIDDEN; and no step sends
\* such a user a snapshot frame of the list.
Outsider(entry, userId) ==
    /\ entry # NoRow
    /\ entry.visibility = "private"
    /\ entry.ownerId # userId
    /\ userId \notin entry.collaborators

C17_SubscribeForbidden ==
    [][/\ \A t \in BagToSet(tasks) :
             ( /\ t.kind = "snap" /\ t.key.kind = "list" /\ t.then = "flush"
               /\ SnapshotEntry(t)
               /\ t.conn \in connections
               /\ Outsider(fetchRegistryEntry(dbLists, t.key.listId), ConnUser(t.conn)) )
             => \E i \in 1..Len(emitted') :
                   emitted'[i] = ErrorFrame(t.conn, "FORBIDDEN", "No access to list")
       /\ \A i \in 1..Len(emitted') :
             LET f == emitted'[i] IN
             (f.type = "snapshot" /\ f.doc.kind = "list")
                 => ~Outsider(fetchRegistryEntry(dbLists, f.doc.listId), ConnUser(f.to))]_vars

\* bob subscribed to alice's private list and was answered FORBIDDEN.
C17_Witness ==
    /\ Outsider(dbLists[1], "bob")
    /\ ListKey(1) \in DOMAIN subscriptions[2]
    /\ \E i \in 1..Len(emitted) :
          emitted[i] = ErrorFrame(2, "FORBIDDEN", "No access to list")

\* C18: every registry snapshot frame sent to a connection of user U holds
\* exactly the entries of the registry document, as it is when the frame is
\* sent, that are public, owned by U or list U as collaborator, in the
\* order of the document.
RECURSIVE VisibleEntries(_, _)
VisibleEntries(lists, userId) ==
    IF lists = <<>> THEN <<>>
    ELSE LET e == Head(lists) IN
         (IF e.visibility = "public" \/ e.ownerId = userId \/ userId \in e.collaborators
          THEN <<e>> ELSE <<>>) \o VisibleEntries(Tail(lists), userId)

IsRegistrySnapshot(f) == f.type = "snapshot" /\ f.doc = RegistryKey

C18_RegistrySnapshotExact ==
    [][\A i \in 1..Len(emitted') :
          IsRegistrySnapshot(emitted'[i])
              => emitted'[i].state
                     = VisibleEntries(registryDoc'.lists, ConnUser(emitted'[i].to))]_vars

\* alice and bob get a registry snapshot in the same broadcast; alice's
\* holds a private list of hers that bob's does not.
C18_Witness ==
    \E i, j \in 1..Len(emitted) :
        /\ IsRegistrySnapshot(emitted[i]) /\ ConnUser(emitted[i].to) = "alice"
        /\ IsRegistrySnapshot(emitted[j]) /\ ConnUser(emitted[j].to) = "bob"
        /\ \E k \in 1..Len(emitted[i].state) :
              LET e == emitted[i].state[k] IN
              /\ e.visibility = "private" /\ e.ownerId = "alice"
              /\ "bob" \notin e.collaborators
              /\ \A n \in 1..Len(emitted[j].state) : emitted[j].state[n].id # e.id
        /\ Len(emitted[i].state) >= 2

\* C19: every bulletins snapshot frame sent to a connection of user U holds
\* exactly the bulletins of the bulletin document, as it is when the frame
\* is sent, that are public or written by U, in the order of the document;
\* so it never holds a private bulletin of another author.
RECURSIVE VisibleBulletins(_, _)
VisibleBulletins(bulletins, userId) ==
    IF bulletins = <<>> THEN <<>>
    ELSE LET b == Head(bulletins) IN
         (IF b.visibility = "public" \/ b.authorId = userId THEN <<b>> ELSE <<>>)
         \o VisibleBulletins(Tail(bulletins), userId)

IsBulletinsSnapshot(f) == f.type = "snapshot" /\ f.doc = BulletinsKey

C19_BulletinsSnapshotExact ==
    [][\A i \in 1..Len(emitted') :
          IsBulletinsSnapshot(emitted'[i])
              => /\ emitted'[i].state
                       = VisibleBulletins(bulletinsDoc'.bulletins, ConnUser(emitted'[i].to))
                 /\ \A k \in 1..Len(emitted'[i].state) :
                       LET b == emitted'[i].state[k] IN
                       b.visibility = "private" => b.authorId = ConnUser(emitted'[i].to)]_vars

\* bob gets a bulletins snapshot that holds a public bulletin and leaves
\* out the private bulletin alice wrote.
C19_Witness ==
    \E i \in 1..Len(emitted) :
        /\ IsBulletinsSnapshot(emitted[i]) /\ ConnUser(emitted[i].to) = "bob"
        /\ Len(emitted[i].state) >= 1
        /\ \E k \in 1..Len(bulletinsDoc.bulletins) :
              LET b == bulletinsDoc.bulletins[k] IN
              /\ b.visibility = "private" /\ b.authorId = "alice"
              /\ \A n \in 1..Len(emitted[i].state) : emitted[i].state[n].id # b.id

\* C20: no frame sent to a connection of user U, snapshot or sync frame of
\* the bulletin document, carries a private bulletin written by another
\* user.
Conveyed(f) ==
    IF f.doc # BulletinsKey THEN <<>>
    ELSE IF f.type = "snapshot" THEN f.state
    ELSE IF f.type = "sync" /\ f.changes THEN f.state.bulletins
    ELSE <<>>

C20_NoForeignPrivateBulletin ==
    \A i \in 1..Len(emitted) :
        \A k \in 1..Len(Conveyed(emitted[i])) :
            LET b == Conveyed(emitted[i])[k] IN
            b.visibility = "private" => b.authorId = ConnUser(emitted[i].to)

\* C21: once every one of the concurrent writeFileAtomic calls on the
\* target has settled, none of them has failed, the target holds the
\* complete payload of one call, and the directory holds no temp file.
AllSettled == \A w \in WriterIds : writers[w].pc \in {"done", "failed"}

C21_ConcurrentWritesAtomic ==
    AllSettled =>
        /\ \A w \in WriterIds : writers[w].pc = "done"
        /\ directory[targetPath] # 0
        /\ \E w \in WriterIds : inodes[directory[targetPath]] = Payload(w)
        /\ \A n \in FileNames : n.tmp => directory[n] = 0

\* C22: when the process exits after a shutdown signal, no list document
\* and not the bulletin document is marked dirty, and every cached
\* document is the one the database holds.
CleanExit ==
    /\ dirtyListIds = {}
    /\ ~bulletinsDirty
    /\ \A l \in AnyListId :
          listDocCache[l] # NoDoc => listDocCache[l] = loadedListDoc(dbListDocs, l)
    /\ bulletinsDoc = IF dbBulletinDoc = NoDoc THEN EmptyBulletinDoc ELSE dbBulletinDoc

C22_ExitAfterFlush ==
    [][(process # "exited" /\ process' = "exited") => CleanExit']_vars

\* C23: an error frame sent because the caller lacks the role the
\* operation needs has code FORBIDDEN, and one sent because the list, item
\* or bulletin referred to does not exist has code NOT_FOUND.
RoleCauses == {"Forbidden", "No access to list"}
MissingCauses == {"List not found", "Item not found", "Bulletin not found"}

C23_ErrorCodeOfCause ==
    \A i \in 1..Len(emitted) :
        emitted[i].type = "error" =>
            /\ emitted[i].message \in RoleCauses => emitted[i].code = "FORBIDDEN"
            /\ emitted[i].message \in MissingCauses => emitted[i].code = "NOT_FOUND"

\* C24: a step that answers a connection with an error frame sends it
\* exactly one error frame, leaves the connection in the connection set and
\* keeps every subscription it holds; and a connection of the set can
\* always have its next frame handled.
ErrorsTo(frames, c) ==
    {i \in 1..Len(frames) : frames[i].type = "error" /\ frames[i].to = c}

C24_FailureKeepsConnection ==
    /\ [][\A c \in Conns :
             ErrorsTo(emitted', c) # {} =>
                 /\ Cardinality(ErrorsTo(emitted', c)) = 1
                 /\ c \in connections'
                 /\ DOMAIN subscriptions[c] \subseteq DOMAIN subscriptions'[c]]_vars
    /\ [](\A c \in connections : nframes < MaxFrames => ENABLED Hello(c))

\* bob's second frame fails like his first could have: he is answered
\* BAD_REQUEST, is still connected and still subscribed.
C24_Witness ==
    /\ nframes = MaxFrames
    /\ ErrorsTo(emitted, 2) # {}
    /\ 2 \in connections
    /\ {RegistryKey, BulletinsKey} \subseteq DOMAIN subscriptions[2]

\* C25: unsubscribe(D) removes the connection's subscription to D with its
\* sync state, and close removes every subscription of the connection.
\* While a connection holds no subscription to D it is sent no sync frame
\* for D, and a snapshot of D only in answer to a request_full_state of its
\* own or from a subscribe or sendSnapshot for it that was under way; no
\* broadcast starts a snapshot for it.  A subscription that is created
\* starts from the initial sync state.
FramesFor(frames, c, key, type) ==
    {i \in 1..Len(frames) :
        frames[i].to = c /\ frames[i].doc = key /\ frames[i].type = type}

OwnSnapshot(c) ==
    \E t \in BagToSet(tasks) :
        /\ t.kind \in {"snap", "subscribe"} /\ t.conn = c
        /\ SnapshotEntry(t) \/ SnapshotLoaded(t) \/ SubscribeLoaded(t)

C25_SubscriptionDestroyed ==
    [][\A c \in Conns, key \in DocKeys :
          /\ Unsubscribe(c, key) => key \notin DOMAIN subscriptions'[c]
          /\ Close(c) => DOMAIN subscriptions'[c] = {}
          /\ (key \notin DOMAIN subscriptions[c] /\ key \notin DOMAIN subscriptions'[c]) =>
                /\ FramesFor(emitted', c, key, "sync") = {}
                /\ FramesFor(emitted', c, key, "snapshot") # {}
                      => RequestFullState(c, <<key>>) \/ OwnSnapshot(c)
                /\ \A t \in BagToSet(tasks') :
                      ( /\ t.kind = "snap" /\ t.conn = c /\ t.key = key
                        /\ CopiesIn(t, tasks') > CopiesIn(t, tasks) )
                      => RequestFullState(c, <<key>>) \/ OwnSnapshot(c)
          /\ (key \notin DOMAIN subscriptions[c] /\ key \in DOMAIN subscriptions'[c]) =>
                subscriptions'[c][key] \in
                    {initSyncState,
                     generateSyncMessage(bulletinsDoc', initSyncState).state}]_vars

\* bob has unsubscribed from the bulletins; alice's sync frame changes the
\* bulletin document and the broadcast reaches alice alone.
C25_Witness ==
    /\ BulletinsKey \notin DOMAIN subscriptions[2]
    /\ 2 \in connections
    /\ nframes = 2
    /\ bulletinsDirty
    /\ FramesFor(emitted, 1, BulletinsKey, "snapshot") # {}
    /\ FramesFor(emitted, 2, BulletinsKey, "snapshot") = {}

\* C26: the first frame a connection is sent is its welcome frame: the step
\* that puts a connection into the connection set sends it the welcome
\* frame before any other frame, and no frame goes to a connection that is
\* not yet in the set.
FramesTo(frames, c) == SelectSeq(frames, LAMBDA f : f.to = c)

C26_WelcomeFirst ==
    [][\A c \in Conns :
          /\ (c \notin connections /\ c \in connections')
                => /\ FramesTo(emitted', c) # <<>>
                   /\ Head(FramesTo(emitted', c)) = Welcome(c)
          /\ (c \notin connections /\ c \notin connections')
                => FramesTo(emitted', c) = <<>>
          /\ c \in connections
                => \A i \in 1..Len(emitted') :
                      emitted'[i].to = c => emitted'[i].type # "welcome"]_vars

\* bob's connection is still waiting for its first registry snapshot when
\* the broadcast of alice's sync frame sends it a bulletins snapshot.
C26_Witness ==
    /\ \E t \in BagToSet(tasks) : t.kind = "snap" /\ t.conn = 2 /\ t.then = "init"
    /\ \E i \in 1..Len(emitted) :
          /\ emitted[i].to = 2 /\ emitted[i].type = "snapshot"
          /\ emitted[i].doc = BulletinsKey

\* C27: toggle_item_checked(id, v) applied twice by a caller who may
\* edit the list gives the items, with their checked flags, that one
\* application gives; the item named has checked = v.
C27_ToggleIdempotent ==
    (probe # NoProbe /\ Len(probe.results) >= 1) =>
        /\ \A k \in 1..Len(probe.results[1].items) :
              probe.results[1].items[k].id = probe.itemId
                  => probe.results[1].items[k].checked = probe.checked
        /\ Len(probe.results) = 2 =>
              probe.results[2].items = probe.results[1].items

\* bob, a collaborator of the private list, has applied the toggle twice
\* to a document in which the item was not checked.
C27_Witness ==
    /\ probe # NoProbe
    /\ Len(probe.results) = 2
    /\ probe.userId = "bob" /\ probe.entry.visibility = "private"
    /\ probe.results[1].items # probe.doc.items
    /\ Len(probe.doc.items) = 2

\* C28: in a broadcast of document D every subscribed connection is sent
\* the snapshot of D before the sync frames of D: among the frames of one
\* step the snapshot comes first, and no sync frame of D goes out in the
\* step that only starts the sendSnapshot of D for the connection.
C28_SnapshotBeforeSync ==
    [][\A c \in Conns, key \in DocKeys :
          /\ \A i \in FramesFor(emitted', c, key, "sync"),
                j \in FramesFor(emitted', c, key, "snapshot") : j < i
          /\ (\E t \in BagToSet(tasks') :
                 /\ t.kind = "snap" /\ t.conn = c /\ t.key = key /\ t.then = None
                 /\ CopiesIn(t, tasks') > CopiesIn(t, tasks))
                => FramesFor(emitted', c, key, "sync") = {}]_vars

\* C29: a bulletin document whose save failed after a mutation stays
\* marked dirty until a flush has written that state: the dirty flag is
\* cleared only by a step that leaves the stored document equal to the
\* document in memory.
C29_FailedWriteStaysDirty ==
    [][(bulletinsDirty /\ ~bulletinsDirty') => dbBulletinDoc' = bulletinsDoc']_vars

\* The persistence writes of the flush timer and of shutdown() that are
\* awaited for a document key.
WritesInProgress(key) ==
    {t \in BagToSet(tasks) : t.kind = "flush" /\ t.key = key}

\* C30: at no time are two persistence writes for the same document key
\* in progress, whether started by two timer ticks or by a timer tick and
\* the shutdown flush.
C30_OneWritePerKey ==
    \A key \in DocKeys :
        \A t, u \in WritesInProgress(key) : t = u /\ CopiesIn(t, tasks) = 1

\* A sync frame of connection c for the document key is handled in this
\* step, by either session loop.
SyncHandled(c, key) ==
    \E msg \in SyncMsgs(key) : Sync(c, key, msg) \/ FileSync(c, key, msg)

\* C31: when a sync frame has changed the bulletin document or a list
\* document, the new state is the cached one, it is marked dirty or is the
\* stored state, and every other subscribed connection is sent a frame of
\* the document (or a snapshot of it is under way).
C31_SyncPersistedAndBroadcast ==
    [][\A c \in Conns, key \in DocKeys \ {RegistryKey} :
          (/\ SyncHandled(c, key)
           /\ resolveDocForDescriptor(key, listDocCache', bulletinsDoc')
                 # resolveDocForDescriptor(key, listDocCache, bulletinsDoc))
          => /\ IF key.kind = "bulletins"
                THEN bulletinsDirty' \/ dbBulletinDoc' = bulletinsDoc'
                ELSE \/ key.listId \in dirtyListIds'
                     \/ /\ key.listId \in ListIds
                        /\ dbListDocs'[key.listId] = listDocCache'[key.listId]
             /\ \A d \in connections' \ {c} :
                   key \in DOMAIN subscriptions'[d] =>
                       \/ \E i \in 1..Len(emitted') :
                             emitted'[i].to = d /\ emitted'[i].doc = key
                       \/ \E t \in BagToSet(tasks') :
                             t.kind = "snap" /\ t.conn = d /\ t.key = key]_vars

\* The authoritative document of list l: the cached one, or the stored
\* one that a load would put into the cache.
AuthoritativeList(cache, stored, l) ==
    IF cache[l] # NoDoc THEN cache[l] ELSE loadedListDoc(stored, l)

\* The handler of a sync frame of connection c reaches receiveSyncMessage
\* in this step with bytes that Automerge rejects.
BadSyncApplied(c, key) ==
    \/ /\ key \in DOMAIN subscriptions[c]
       /\ resolveDocForDescriptor(key, listDocCache, bulletinsDoc) # NoDoc
       /\ Sync(c, key, SyncMsg("bad", FALSE))
    \/ \E t \in BagToSet(tasks) :
          /\ t.conn = c /\ t.key = key /\ t.act = SyncMsg("bad", FALSE)
          /\ SyncDocLoaded(t)

\* C32: when receiveSyncMessage rejects the bytes of a sync frame, the
\* sender is sent one error frame with code BAD_REQUEST and nothing else
\* is sent (no broadcast); the bulletin document, every list document,
\* every sync state and the dirty marks are as before.
C32_BadSyncChangesNothing ==
    [][\A c \in Conns, key \in DocKeys \ {RegistryKey} :
          BadSyncApplied(c, key) =>
              /\ Len(emitted') = 1
              /\ emitted'[1].type = "error" /\ emitted'[1].to = c
              /\ emitted'[1].code = "BAD_REQUEST"
              /\ \A t \in BagToSet(tasks') : CopiesIn(t, tasks') <= CopiesIn(t, tasks)
              /\ bulletinsDoc' = bulletinsDoc
              /\ \A l \in AnyListId :
                    AuthoritativeList(listDocCache', dbListDocs', l)
                        = AuthoritativeList(listDocCache, dbListDocs, l)
              /\ subscriptions' = subscriptions
              /\ dirtyListIds' = dirtyListIds
              /\ bulletinsDirty' = bulletinsDirty]_vars

\* A rejected sync frame has been answered while the bulletin document,
\* changed by an earlier sync frame, is dirty and has subscribers.
C32_Witness ==
    /\ \E c \in Conns : emitted = <<ErrorFrame(c, "BAD_REQUEST", "Invalid sync message")>>
    /\ bulletinsDirty
    /\ \A c \in Conns : BulletinsKey \in DOMAIN subscriptions[c]

\* C33: a sync frame for a document the sending connection holds no
\* subscription to when the frame is handled changes no document and no
\* sync state, starts nothing, and is answered with one error frame.
C33_SyncNeedsSubscription ==
    [][\A c \in Conns, key \in DocKeys :
          (key \notin DOMAIN subscriptions[c] /\ SyncHandled(c, key)) =>
              /\ Len(emitted') = 1
              /\ emitted'[1].type = "error" /\ emitted'[1].to = c
              /\ bulletinsDoc' = bulletinsDoc
              /\ listDocCache' = listDocCache
              /\ registryDoc' = registryDoc
              /\ subscriptions' = subscriptions
              /\ tasks' = tasks]_vars

\* A connection that has unsubscribed from the bulletins has had a sync
\* frame refused for want of a subscription.
C33_Witness ==
    \E c \in connections :
        /\ BulletinsKey \notin DOMAIN subscriptions[c]
        /\ RegistryKey \in DOMAIN subscriptions[c]
        /\ emitted = <<ErrorFrame(c, "BAD_REQUEST", "Not subscribed to document")>>

\* No call of writeFileAtomic is under way and at least one has failed.
FailedAndQuiet ==
    /\ \A w \in WriterIds : writers[w].pc \in {"idle", "done", "failed"}
    /\ \E w \in WriterIds : writers[w].pc = "failed"

\* C34: once writeFileAtomic has failed and no call is under way, no temp
\* sibling file is left in the directory, and the target is absent or
\* holds the complete data of one call.
C34_FailureLeavesNoTemp ==
    FailedAndQuiet =>
        /\ \A n \in FileNames : n.tmp => directory[n] = 0
        /\ \/ directory[targetPath] = 0
           \/ \E w \in WriterIds : inodes[directory[targetPath]] = Payload(w)

\* C35: the cached document of a list never regresses: no step replaces
\* a cached list document by one with fewer changes.
C35_CachedListNeverRegresses ==
    [][\A l \in AnyListId :
          (listDocCache[l] # NoDoc /\ listDocCache'[l] # NoDoc)
              => listDocCache'[l].ver >= listDocCache[l].ver]_vars

\* C36: a step of a list action that changes the document of list L is
\* taken only while the caller may edit L according to the registry as it
\* is in that step.
C36_ListActionChecksAtApplication ==
    [][\A t \in BagToSet(tasks) :
          (/\ t.kind = "list"
           /\ ListEntryFetched(t) \/ ListDocLoaded(t)
           /\ AuthoritativeList(listDocCache', dbListDocs', t.key.listId)
                 # AuthoritativeList(listDocCache, dbListDocs, t.key.listId))
          => editableTo(fetchRegistryEntry(dbLists, t.key.listId), ConnUser(t.conn))]_vars

\* The handler of a sync frame of connection c for list l runs in this
\* step, from the frame or from the return of its loadListDoc.
ListSyncStep(c, l) ==
    \/ SyncHandled(c, ListKey(l))
    \/ \E t \in BagToSet(tasks) :
          t.kind = "sync" /\ t.conn = c /\ t.key = ListKey(l) /\ SyncDocLoaded(t)

\* C37: a sync frame changes the document of a list only if its sender
\* may edit the list at that time: the registry entry exists, is not
\* archived, and is public, owned by the sender or names the sender as
\* collaborator.
C37_SyncNeedsEditable ==
    [][\A c \in Conns, l \in AnyListId :
          (/\ ListSyncStep(c, l)
           /\ AuthoritativeList(listDocCache', dbListDocs', l)
                 # AuthoritativeList(listDocCache, dbListDocs, l))
          => editableTo(fetchRegistryEntry(dbLists, l), ConnUser(c))]_vars

\* C38: a step that answers a frame with an error frame applies no
\* mutation: the bulletin document, the registry and every list document
\* are as before, so that nothing of the refused action can show later.
C38_ErrorMeansNotApplied ==
    [][\A c \in Conns :
          ErrorsTo(emitted', c) # {} =>
              /\ bulletinsDoc' = bulletinsDoc
              /\ registryDoc' = registryDoc
              /\ dbLists' = dbLists
              /\ \A l \in AnyListId :
                    AuthoritativeList(listDocCache', dbListDocs', l)
                        = AuthoritativeList(listDocCache, dbListDocs, l)]_vars

\* C39: a subscribe frame for a document the connection is subscribed to
\* keeps the subscription and its sync state: what the peer is known to
\* hold stays, what was sent is not forgotten, and the connection's set of
\* subscribed keys is the same.
C39_ResubscribeKeepsSyncState ==
    [][\A c \in Conns, key \in DocKeys :
          (/\ key \in DOMAIN subscriptions[c]
           /\ Subscribe(c, key) \/ FileSubscribe(c, key))
          => /\ DOMAIN subscriptions'[c] = DOMAIN subscriptions[c]
             /\ subscriptions'[c][key].their = subscriptions[c][key].their
             /\ subscriptions[c][key].sent # -1 => subscriptions'[c][key].sent # -1]_vars

\* A connection whose peer has synced the bulletins has subscribed to the
\* bulletins again and was sent the snapshot; its sync state still tells
\* what the peer holds.
C39_Witness ==
    \E c \in connections :
        /\ emitted # <<>>
        /\ emitted[1].type = "snapshot" /\ emitted[1].to = c /\ emitted[1].doc = BulletinsKey
        /\ BulletinsKey \in DOMAIN subscriptions[c]
        /\ subscriptions[c][BulletinsKey].their # -1

\* A frame that costs k hundredths of a token was accepted in this step.
TokensTaken(k) ==
    /\ emitted' # RateLimitedFrame
    /\ rateLimiter'.tokens >= 0
    /\ rateLimiter'.tokens >= rateLimiter.tokens - k
    /\ rateLimiter'.tokens <= RATE_LIMIT_CAPACITY * TokenScale - k
    /\ now = rateLimiter.lastRefill => rateLimiter'.tokens = rateLimiter.tokens - k

\* C40: the token count of the connection is always between 0 and the
\* capacity of 40; an accepted action frame takes exactly 1 token and an
\* accepted sync frame exactly 0.25 from the refilled bucket, a refused
\* frame takes none, and a frame that costs nothing leaves the bucket as
\* it is.
C40_TokensWithinBounds ==
    /\ [](/\ rateLimiter.tokens >= 0
          /\ rateLimiter.tokens <= RATE_LIMIT_CAPACITY * TokenScale)
    /\ [][/\ RateEditAction =>
                \/ TokensTaken(RATE_LIMIT_COST_ACTION * TokenScale)
                \/ emitted' = RateLimitedFrame /\ rateLimiter'.tokens >= rateLimiter.tokens
          /\ (\E key \in DocKeys : RateSync(key)) =>
                \/ TokensTaken(TokenScale \div 4)
                \/ emitted' = RateLimitedFrame /\ rateLimiter'.tokens >= rateLimiter.tokens
          /\ RateFreeFrame => rateLimiter' = rateLimiter]_vars

\* After a refill the bucket has been emptied, the last quarter token
\* taken by a sync frame.
C40_Witness ==
    /\ rateLimiter.tokens = 0
    /\ rateLimiter.lastRefill > 0
    /\ emitted = <<ErrorFrame(1, "BAD_REQUEST", "Not subscribed to document")>>

====
